---- MODULE Spec2Model ----
(***************************************************************************)
(* Event ingestion -> rollup aggregation pipeline of the project API:      *)
(* ingestEvents (statsService.ts), the aggregation scheduler and the       *)
(* rollup rebuilder (statsAggregationService.ts), the read cache           *)
(* (statsCache) and the cached overview reader (statsService.ts).          *)
(*                                                                         *)
(* Encoding of values                                                      *)
(*   - undefined / null is NoValue for a plain string, and the empty       *)
(*     tuple NoHash for a value that may hold a digest.                    *)
(*   - a calendar date "YYYY-MM-DD" is the number YYYYMMDD: the strings    *)
(*     are zero padded and of one width, so the string order used by       *)
(*     Array.sort() is the order of these numbers.                         *)
(*   - a timestamp string is a record [date, tod, fmt]: the instant        *)
(*     (date, tod) spelled in the format fmt; Garbage is a spelling that   *)
(*     Date cannot parse.  toISOString() spells an instant with fmt "ms".  *)
(*   - a sha256 hex digest is the injective tagging <<"sha256", x>>; a     *)
(*     caller-supplied key string k is the tuple <<k>>.                    *)
(***************************************************************************)
EXTENDS Integers, Sequences, FiniteSets, TLC

VARIABLES
  events,               \* table project_events: the set of stored rows
  calls,                \* ingestEvents invocations in flight, by call slot
  ingestCount,          \* number of ingestEvents invocations begun so far
  lastResult,           \* what the most recent ingestEvents invocation returned or threw
  pendingAggregations,  \* Map<projectId, Set<date>>, in insertion order
  flushScheduled,       \* module flag flushScheduled
  immediates,           \* number of setImmediate callbacks queued and not yet run
  scheduleCount,        \* number of direct scheduleProjectAggregation calls so far
  flushes,              \* flushQueue executions in flight, by flush id
  lastFlush,            \* snapshot and effects of the flushQueue execution that ended last
  rollups,              \* the four committed rollup tables
  cache,                \* the NodeCache of statsCache: a set of live entries
  reads,                \* getOverviewStats invocations in flight, by read slot
  readCount,            \* number of getOverviewStats invocations begun so far
  lastRead,             \* what the most recent getOverviewStats invocation returned
  settled,              \* per project: no rebuild has committed since the cache was last invalidated
  bulk,                 \* the rebuildProjectAggregates invocation in flight or ended last
  funnelTables,         \* tables project_funnels and project_funnel_steps
  funnelCall,           \* the funnelService read in flight or ended last
  funnelWrite,          \* the funnelService write that ended last
  cacheOp,              \* the statsCache call made last from outside the pipeline
  limiter               \* a ProjectRateLimiter, the clock and its last answer

ingestVars == <<events, calls, ingestCount, lastResult>>
schedulerVars == <<pendingAggregations, flushScheduled, immediates>>
flushVars == <<flushes, lastFlush, rollups, settled>>
readVars == <<reads, readCount, lastRead>>
\* everything the ingestion, flush and read handlers keep
pipelineVars == <<ingestVars, schedulerVars, scheduleCount, flushVars, cache, readVars>>
bulkVars == <<bulk>>
funnelVars == <<funnelTables, funnelCall, funnelWrite>>
\* what the pipeline's own handlers never touch
serviceVars == <<bulkVars, funnelVars, cacheOp, limiter>>
\* what a bulk rebuild and what the funnel service leave alone besides the pipeline
besideBulk == <<funnelVars, cacheOp, limiter>>
besideFunnel == <<bulkVars, cacheOp, limiter>>

vars == <<events, calls, ingestCount, lastResult, pendingAggregations, flushScheduled,
          immediates, scheduleCount, flushes, lastFlush, rollups, cache, reads, readCount,
          lastRead, settled, bulk, funnelTables, funnelCall, funnelWrite,
          cacheOp, limiter>>

----------------------------------------------------------------------------
(* Bounds and input domains *)

NoValue == "none"
NoHash == <<>>
Garbage == [date |-> 0, tod |-> 0, fmt |-> "garbage"]
NaN == [valid |-> FALSE, date |-> 0, tod |-> 0]

MaxCalls == 2
MaxSchedules == 2
MaxReads == 2

MAX_BATCH == 2

Projects == {"p1", "p2"}
Dates == {20250101, 20250102}
CallSlots == {"c1", "c2"}

BasePayload ==
  [timestamp |-> [date |-> 20250101, tod |-> 10, fmt |-> "ms"],
   page_url |-> "https://site/a", path |-> "/a",
   session_id |-> "s1", anon_id |-> NoValue, user_id |-> NoValue,
   funnel_id |-> NoValue, step |-> NoValue, idempotency_key |-> NoHash]

\* a page view with no explicit key
PayView == BasePayload
\* the same view carrying a user id as well
PayViewUser == [BasePayload EXCEPT !.user_id = "u1"]
\* a view of the next day under the explicit key "k1"
PayKeyed ==
  [BasePayload EXCEPT !.timestamp = [date |-> 20250102, tod |-> 9, fmt |-> "ms"],
                      !.path = "/b", !.page_url = "https://site/b",
                      !.session_id = "s2", !.idempotency_key = <<"k1">>]
\* a payload whose timestamp does not parse
PayBad == [BasePayload EXCEPT !.timestamp = Garbage]

IngestPayloads == {PayView, PayViewUser, PayKeyed, PayBad}

RECURSIVE SeqsUpTo(_, _)
SeqsUpTo(S, n) ==
  IF n = 0 THEN {<<>>}
  ELSE LET shorter == SeqsUpTo(S, n - 1)
       IN shorter \cup {Append(s, x) : s \in {t \in shorter : Len(t) = n - 1}, x \in S}

\* every batch of at most MAX_BATCH payloads, and one batch that is too large
IngestBatches ==
  SeqsUpTo(IngestPayloads, MAX_BATCH) \cup {[i \in 1..(MAX_BATCH + 1) |-> PayView]}

----------------------------------------------------------------------------
(* Pure helpers *)

\* new Date(input): the instant, or NaN for a string Date cannot parse
ParseDate(input) ==
  IF input.fmt = "garbage" THEN NaN
  ELSE [valid |-> TRUE, date |-> input.date, tod |-> input.tod]

\* Date.prototype.toISOString
ToISOString(instant) == [date |-> instant.date, tod |-> instant.tod, fmt |-> "ms"]

\* the "YYYY-MM-DD" prefix of the ISO spelling, or null (here 0) when unparsable
normalizeDate(input) ==
  LET date == ParseDate(input)
  IN IF ~date.valid THEN 0 ELSE ToISOString(date).date

hashSecret(value) == <<"sha256", value>>

hashIdentifier(value) ==
  IF value # NoValue /\ value # "" THEN hashSecret(value) ELSE NoHash

\* a ?? b
Coalesce2(a, b) == IF a # NoValue THEN a ELSE b

\* an element of Array.prototype.join: undefined and null join as ""
JoinPart(x) == IF x = NoValue THEN "" ELSE x

\* the string hashed into the derived idempotency key
DerivedKeySource(payload) ==
  <<payload.timestamp, JoinPart(payload.page_url), JoinPart(payload.path),
    Coalesce2(payload.session_id, Coalesce2(payload.anon_id, "")),
    Coalesce2(payload.funnel_id, ""), Coalesce2(payload.step, "")>>

IdempotencyKey(payload) ==
  IF payload.idempotency_key # NoHash THEN payload.idempotency_key
  ELSE hashSecret(DerivedKeySource(payload))

RECURSIVE SortAsc(_)
\* Array.prototype.sort on date strings: ascending
SortAsc(S) ==
  IF S = {} THEN <<>>
  ELSE LET least == CHOOSE x \in S : \A y \in S : x <= y
       IN <<least>> \o SortAsc(S \ {least})

----------------------------------------------------------------------------
(* Funnel metadata store (project_funnels, project_funnel_steps) *)

\* the funnels configured at start: f1 of p1 with step s1, f2 of p2 with steps s1, s2
ProjectFunnels ==
  {[id |-> "f1", projectId |-> "p1", name |-> "F1", description |-> NoValue,
    isActive |-> TRUE, updatedAt |-> 0],
   [id |-> "f2", projectId |-> "p2", name |-> "F2", description |-> NoValue,
    isActive |-> TRUE, updatedAt |-> 0]}
ProjectFunnelSteps ==
  {[funnelId |-> "f1", stepKey |-> "s1", name |-> "S1", stepOrder |-> 0],
   [funnelId |-> "f2", stepKey |-> "s1", name |-> "S1", stepOrder |-> 0],
   [funnelId |-> "f2", stepKey |-> "s2", name |-> "S2", stepOrder |-> 1]}

\* a plausible slip: the funnel lookup without the project filter
getFunnelIdsOfAnyProject(projectId, ids) ==
  {f.id : f \in {g \in funnelTables.funnels : g.id \in ids}}

getValidFunnelIds(projectId, ids) ==
  {f.id : f \in {g \in funnelTables.funnels : g.projectId = projectId /\ g.id \in ids}}

getValidFunnelSteps(projectId, funnelIds, steps) ==
  {<<s.funnelId, s.stepKey>> :
     s \in {t \in funnelTables.steps :
              /\ \E f \in funnelTables.funnels : f.id = t.funnelId /\ f.projectId = projectId
              /\ t.funnelId \in funnelIds
              /\ t.stepKey \in steps}}

----------------------------------------------------------------------------
(* Event store: INSERT ... ON CONFLICT (project_id, idempotency_key) DO NOTHING *)

\* the row ingestEvents builds for one payload
EventRow(projectId, payload, validFunnels, validSteps) ==
  LET occurredAt == ParseDate(payload.timestamp)
      funnelId == IF payload.funnel_id # NoValue /\ payload.funnel_id \in validFunnels
                  THEN payload.funnel_id ELSE NoValue
      stepKey == IF funnelId # NoValue /\ payload.step # NoValue
                    /\ <<funnelId, payload.step>> \in validSteps
                 THEN payload.step ELSE NoValue
  IN [projectId |-> projectId,
      occurredAt |-> [date |-> occurredAt.date, tod |-> occurredAt.tod],
      sessionHash |-> hashIdentifier(payload.session_id),
      userHash |-> hashIdentifier(Coalesce2(payload.user_id, payload.anon_id)),
      pageUrl |-> payload.page_url,
      path |-> payload.path,
      funnelId |-> funnelId,
      stepKey |-> stepKey,
      idempotencyKey |-> IdempotencyKey(payload)]

\* the stored rows of a project under an idempotency key
RowsWithKey(table, projectId, key) ==
  {r \in table : r.projectId = projectId /\ r.idempotencyKey = key}

\* a plausible slip: no conflict target, every row is inserted
ConflictsNever(table, row) == FALSE

\* the unique index on (project_id, idempotency_key) decides a conflict
Conflicts(table, row) == RowsWithKey(table, row.projectId, row.idempotencyKey) # {}

\* the stored form of a row: the database gives it an id no other row has
Stored(table, row) ==
  [id |-> <<row.projectId, row.idempotencyKey,
            Cardinality(RowsWithKey(table, row.projectId, row.idempotencyKey))>>,
   projectId |-> row.projectId, occurredAt |-> row.occurredAt,
   sessionHash |-> row.sessionHash, userHash |-> row.userHash,
   pageUrl |-> row.pageUrl, path |-> row.path,
   funnelId |-> row.funnelId, stepKey |-> row.stepKey,
   idempotencyKey |-> row.idempotencyKey]

\* a plausible slip: duplicates are filtered against the rows stored before the
\* statement only, so two rows of one batch with the same key are both inserted
RECURSIVE InsertFiltered(_, _, _, _)
InsertFiltered(before, table, rows, returned) ==
  IF rows = <<>> THEN [table |-> table, returning |-> returned]
  ELSE IF Conflicts(before, Head(rows))
       THEN InsertFiltered(before, table, Tail(rows), returned)
       ELSE LET stored == Stored(table, Head(rows))
            IN InsertFiltered(before, table \cup {stored}, Tail(rows),
                              returned \cup {stored.id})

InsertCheckingStoredOnly(table, rows, returned) ==
  InsertFiltered(table, table, rows, returned)

\* one statement inserting rows in order; a row in conflict with a stored row or
\* with an earlier row of the same statement is skipped.  Returns the table and
\* the ids of the rows inserted (RETURNING id).
RECURSIVE InsertOnConflictDoNothing(_, _, _)
InsertOnConflictDoNothing(table, rows, returned) ==
  IF rows = <<>> THEN [table |-> table, returning |-> returned]
  ELSE IF Conflicts(table, Head(rows))
       THEN InsertOnConflictDoNothing(table, Tail(rows), returned)
       ELSE LET stored == Stored(table, Head(rows))
            IN InsertOnConflictDoNothing(table \cup {stored}, Tail(rows),
                                         returned \cup {stored.id})

----------------------------------------------------------------------------
(* Aggregation scheduler: scheduleProjectAggregation *)

PendingIndex(pending, projectId) ==
  {i \in DOMAIN pending : pending[i].projectId = projectId}

\* pendingAggregations.get(projectId), the empty set when there is no entry
PendingDates(pending, projectId) ==
  UNION {pending[i].dates : i \in PendingIndex(pending, projectId)}

\* the map after the date loop of scheduleProjectAggregation
PendingAfterSchedule(pending, projectId, occurredAtValues) ==
  LET withEntry == IF PendingIndex(pending, projectId) = {}
                   THEN Append(pending, [projectId |-> projectId, dates |-> {}])
                   ELSE pending
      normalized == {normalizeDate(occurredAtValues[i]) : i \in DOMAIN occurredAtValues} \ {0}
  IN [i \in DOMAIN withEntry |->
        IF withEntry[i].projectId = projectId
        THEN [withEntry[i] EXCEPT !.dates = @ \cup normalized]
        ELSE withEntry[i]]

\* a plausible slip: the size of the date set is tested before the dates are added
SizeTestedBeforeLoop(pending, projectId, occurredAtValues) ==
  /\ Len(occurredAtValues) # 0
  /\ PendingDates(pending, projectId) # {}

\* whether the call reaches the flushScheduled test
ReachesFlushTest(pending, projectId, occurredAtValues) ==
  /\ Len(occurredAtValues) # 0
  /\ PendingDates(PendingAfterSchedule(pending, projectId, occurredAtValues), projectId) # {}

\* a plausible slip: setImmediate on every call, without the flushScheduled test
scheduleWithoutFlagTest(projectId, occurredAtValues) ==
  IF Len(occurredAtValues) = 0
  THEN UNCHANGED <<pendingAggregations, flushScheduled, immediates>>
  ELSE /\ pendingAggregations' =
            PendingAfterSchedule(pendingAggregations, projectId, occurredAtValues)
       /\ IF ReachesFlushTest(pendingAggregations, projectId, occurredAtValues)
          THEN /\ flushScheduled' = TRUE
               /\ immediates' = immediates + 1
          ELSE UNCHANGED <<flushScheduled, immediates>>

\* scheduleProjectAggregation(projectId, occurredAtValues)
scheduleProjectAggregation(projectId, occurredAtValues) ==
  IF Len(occurredAtValues) = 0
  THEN UNCHANGED <<pendingAggregations, flushScheduled, immediates>>
  ELSE /\ pendingAggregations' =
            PendingAfterSchedule(pendingAggregations, projectId, occurredAtValues)
       /\ IF ReachesFlushTest(pendingAggregations, projectId, occurredAtValues)
             /\ ~flushScheduled
          THEN /\ flushScheduled' = TRUE
               /\ immediates' = immediates + 1
          ELSE UNCHANGED <<flushScheduled, immediates>>

----------------------------------------------------------------------------
(* ingestEvents *)

IdleCall ==
  [pc |-> "idle", projectId |-> NoValue, payloads |-> <<>>,
   validFunnels |-> {}, validSteps |-> {}, rows |-> <<>>, inserted |-> {}]

NoResult ==
  [kind |-> "none", projectId |-> NoValue, accepted |-> 0, total |-> 0, skipped |-> 0,
   error |-> NoValue]

OkResult(projectId, accepted, total, skipped) ==
  [kind |-> "ok", projectId |-> projectId, accepted |-> accepted, total |-> total,
   skipped |-> skipped, error |-> NoValue]

Thrown(projectId, error) ==
  [kind |-> "error", projectId |-> projectId, accepted |-> 0, total |-> 0, skipped |-> 0,
   error |-> error]

\* a plausible slip: rows with an unparsable timestamp are tolerated
FirstInvalidIgnored(payloads) == 0

\* index of the first payload whose timestamp does not parse, 0 when all parse
FirstInvalidTimestamp(payloads) ==
  LET bad == {i \in DOMAIN payloads : ~ParseDate(payloads[i].timestamp).valid}
  IN IF bad = {} THEN 0 ELSE CHOOSE i \in bad : \A j \in bad : i <= j

\* a plausible slip: no limit on the batch size
ExceedsNever(payloads) == FALSE

\* payloads.length > MAX_BATCH (line 398)
ExceedsBatchLimit(payloads) == Len(payloads) > MAX_BATCH

\* entry of ingestEvents up to the funnel lookups (lines 394-419)
IngestStart(c, projectId, payloads) ==
  /\ calls[c].pc = "idle"
  /\ ingestCount < MaxCalls
  /\ ingestCount' = ingestCount + 1
  /\ IF Len(payloads) = 0
     THEN /\ lastResult' = OkResult(projectId, 0, 0, 0)
          /\ UNCHANGED calls
     ELSE IF ExceedsBatchLimit(payloads)
     THEN /\ lastResult' = Thrown(projectId, "batch too large")
          /\ UNCHANGED calls
     ELSE LET funnelIds == {payloads[i].funnel_id : i \in DOMAIN payloads} \ {NoValue}
              stepPairs == {i \in DOMAIN payloads :
                              payloads[i].funnel_id # NoValue /\ payloads[i].step # NoValue}
          IN /\ calls' = [calls EXCEPT ![c] =
                  [IdleCall EXCEPT
                     !.pc = "validated", !.projectId = projectId, !.payloads = payloads,
                     !.validFunnels = getValidFunnelIds(projectId, funnelIds),
                     !.validSteps = getValidFunnelSteps(projectId,
                                      {payloads[i].funnel_id : i \in stepPairs},
                                      {payloads[i].step : i \in stepPairs})]]
             /\ UNCHANGED lastResult
  /\ UNCHANGED <<serviceVars, events, schedulerVars, scheduleCount, flushVars, cache, readVars>>

\* payloads.map(...) throws on the first timestamp that does not parse (423-427)
IngestInvalidTimestamp(c) ==
  /\ calls[c].pc = "validated"
  /\ FirstInvalidTimestamp(calls[c].payloads) # 0
  /\ lastResult' = Thrown(calls[c].projectId, "invalid timestamp")
  /\ calls' = [calls EXCEPT ![c] = IdleCall]
  /\ UNCHANGED <<serviceVars, events, ingestCount, schedulerVars, scheduleCount, flushVars, cache, readVars>>

\* the rows are built and the insert statement runs in the database (423-471)
IngestInsert(c) ==
  /\ calls[c].pc = "validated"
  /\ FirstInvalidTimestamp(calls[c].payloads) = 0
  /\ LET call == calls[c]
         rows == [i \in DOMAIN call.payloads |->
                    EventRow(call.projectId, call.payloads[i],
                             call.validFunnels, call.validSteps)]
         done == InsertOnConflictDoNothing(events, rows, {})
     IN /\ events' = done.table
        /\ calls' = [calls EXCEPT ![c] =
             [call EXCEPT !.pc = "inserted", !.rows = rows, !.inserted = done.returning]]
  /\ UNCHANGED <<serviceVars, ingestCount, lastResult, schedulerVars, scheduleCount, flushVars, cache,
                  readVars>>

\* a plausible slip: the scheduler is signalled in a finally block
SignalsInFinally == TRUE

\* whether the catch block signals the scheduler: it logs and rethrows (484-487)
SignalsAfterFailure == FALSE

\* the insert statement fails: the error is logged and rethrown (484-487)
IngestInsertFails(c) ==
  /\ calls[c].pc = "validated"
  /\ FirstInvalidTimestamp(calls[c].payloads) = 0
  /\ lastResult' = Thrown(calls[c].projectId, "storage")
  /\ calls' = [calls EXCEPT ![c] = IdleCall]
  /\ IF SignalsAfterFailure
       THEN scheduleProjectAggregation(calls[c].projectId,
              [i \in DOMAIN calls[c].payloads |->
                 ToISOString(EventRow(calls[c].projectId, calls[c].payloads[i],
                                      calls[c].validFunnels, calls[c].validSteps).occurredAt)])
     ELSE UNCHANGED schedulerVars
  /\ UNCHANGED <<serviceVars, events, ingestCount, scheduleCount, flushVars, cache, readVars>>

\* a plausible slip: the batch is deduplicated by key before the skips are counted
IngestCountsDistinctKeys(call) ==
  LET accepted == Cardinality(call.inserted)
      keys == {call.rows[i].idempotencyKey : i \in DOMAIN call.rows}
  IN [accepted |-> accepted, skipped |-> Cardinality(keys) - accepted]

\* accepted = inserted.length; skipped = rows.length - accepted (473-474)
IngestCounts(call) ==
  LET accepted == Cardinality(call.inserted)
  IN [accepted |-> accepted, skipped |-> Len(call.rows) - accepted]

\* a plausible slip: the scheduler is signalled whatever the insert returned
SignalsAlways(accepted) == accepted >= 0

\* if (accepted > 0) (476)
SignalsScheduler(accepted) == accepted > 0

\* the continuation after the insert: count, signal the scheduler, return (473-483)
IngestReturn(c) ==
  /\ calls[c].pc = "inserted"
  /\ LET call == calls[c]
         accepted == IngestCounts(call).accepted
         skipped == IngestCounts(call).skipped
     IN /\ IF SignalsScheduler(accepted)
           THEN scheduleProjectAggregation(call.projectId,
                  [i \in DOMAIN call.rows |-> ToISOString(call.rows[i].occurredAt)])
           ELSE UNCHANGED <<pendingAggregations, flushScheduled, immediates>>
        /\ lastResult' = OkResult(call.projectId, accepted, Len(call.rows), skipped)
  /\ calls' = [calls EXCEPT ![c] = IdleCall]
  /\ UNCHANGED <<serviceVars, events, ingestCount, scheduleCount, flushVars, cache, readVars>>

----------------------------------------------------------------------------
(* Rollup rebuilder: recomputeDailyAggregates *)

TableNames == <<"overview", "page", "visitors", "pageVisitors">>

\* number of statements sent inside sqlClient.begin: four DELETE / INSERT pairs
StatementCount == 8

\* COALESCE(session_hash, user_hash, id) of the four INSERT ... SELECT statements
RollupVisitorHash(e) ==
  IF e.sessionHash # NoHash THEN e.sessionHash
  ELSE IF e.userHash # NoHash THEN e.userHash
  ELSE e.id

\* WHERE project_id = p AND occurred_at >= dayStart AND occurred_at < dayEnd
EventsOfDay(table, projectId, date) ==
  {e \in table : e.projectId = projectId /\ e.occurredAt.date = date}

MinSeen(day) == CHOOSE e \in {x.occurredAt : x \in day} :
                  \A x \in day : e.tod <= x.occurredAt.tod
MaxSeen(day) == CHOOSE e \in {x.occurredAt : x \in day} :
                  \A x \in day : e.tod >= x.occurredAt.tod

\* SELECT ... GROUP BY DATE(occurred_at) for project_overview_daily
OverviewSelect(table, projectId, date) ==
  LET day == EventsOfDay(table, projectId, date)
  IN IF day = {} THEN {}
     ELSE {[projectId |-> projectId, eventDate |-> date,
            visits |-> Cardinality(day),
            uniqueVisitors |-> Cardinality({RollupVisitorHash(e) : e \in day}),
            firstSeenAt |-> MinSeen(day), lastSeenAt |-> MaxSeen(day)]}

\* SELECT ... GROUP BY path, page_url, DATE(occurred_at) for page_agg_daily
PageSelect(table, projectId, date) ==
  LET day == EventsOfDay(table, projectId, date)
      groups == {<<e.path, e.pageUrl>> : e \in day}
  IN {LET g == {e \in day : e.path = k[1] /\ e.pageUrl = k[2]}
      IN [projectId |-> projectId, pagePath |-> k[1], pageUrl |-> k[2], eventDate |-> date,
          visits |-> Cardinality(g),
          uniqueVisitors |-> Cardinality({RollupVisitorHash(e) : e \in g}),
          conversions |-> 0,
          firstSeenAt |-> MinSeen(g), lastSeenAt |-> MaxSeen(g)] : k \in groups}

\* SELECT ... GROUP BY DATE(occurred_at), visitor_hash for project_visitors_daily
VisitorSelect(table, projectId, date) ==
  LET day == EventsOfDay(table, projectId, date)
  IN {LET g == {e \in day : RollupVisitorHash(e) = v}
      IN [projectId |-> projectId, eventDate |-> date, visitorHash |-> v,
          firstSeenAt |-> MinSeen(g), lastSeenAt |-> MaxSeen(g)] :
        v \in {RollupVisitorHash(e) : e \in day}}

\* SELECT ... GROUP BY DATE(occurred_at), path, page_url, visitor_hash
PageVisitorSelect(table, projectId, date) ==
  LET day == EventsOfDay(table, projectId, date)
      groups == {<<e.path, e.pageUrl, RollupVisitorHash(e)>> : e \in day}
  IN {LET g == {e \in day : e.path = k[1] /\ e.pageUrl = k[2] /\ RollupVisitorHash(e) = k[3]}
      IN [projectId |-> projectId, eventDate |-> date, pagePath |-> k[1], pageUrl |-> k[2],
          visitorHash |-> k[3],
          firstSeenAt |-> MinSeen(g), lastSeenAt |-> MaxSeen(g)] : k \in groups}

SelectFor(name, table, projectId, date) ==
  CASE name = "overview" -> OverviewSelect(table, projectId, date)
    [] name = "page" -> PageSelect(table, projectId, date)
    [] name = "visitors" -> VisitorSelect(table, projectId, date)
    [] name = "pageVisitors" -> PageVisitorSelect(table, projectId, date)

EmptyRollups == [overview |-> {}, page |-> {}, visitors |-> {}, pageVisitors |-> {}]

\* the rows of one rollup table keyed by (project, date)
RowsOf(tables, name, projectId, date) ==
  {r \in tables[name] : r.projectId = projectId /\ r.eventDate = date}

\* what a transaction has done so far to each table's rows of its (project, date):
\* nothing yet ("kept"), DELETE ("deleted"), DELETE then INSERT ("inserted")
CleanWorkspace ==
  [overview |-> [state |-> "kept", rows |-> {}], page |-> [state |-> "kept", rows |-> {}],
   visitors |-> [state |-> "kept", rows |-> {}],
   pageVisitors |-> [state |-> "kept", rows |-> {}]]

NoTrx == [state |-> "none", projectId |-> NoValue, date |-> 0, stmt |-> 0, ws |-> CleanWorkspace]

\* sqlClient.begin for (projectId, date): nothing sent yet
BeginTrx(projectId, date) ==
  [state |-> "open", projectId |-> projectId, date |-> date, stmt |-> 0, ws |-> CleanWorkspace]

\* statement k of the transaction: DELETE (odd k) or INSERT ... SELECT (even k) on
\* table (k + 1) \div 2.  Each statement reads the event rows committed when it runs.
ExecStatement(trx, k, eventTable) ==
  LET name == TableNames[(k + 1) \div 2]
  IN IF k % 2 = 1
     THEN [trx EXCEPT !.stmt = k, !.ws[name] = [state |-> "deleted", rows |-> {}]]
     ELSE [trx EXCEPT !.stmt = k,
                      !.ws[name] = [state |-> "inserted",
                                    rows |-> SelectFor(name, eventTable, trx.projectId,
                                                       trx.date)]]

\* a plausible slip: no DELETE of the overview row, the INSERT adds its visits
\* to the row that is there (ON CONFLICT DO UPDATE SET visits = visits + EXCLUDED.visits)
ApplyAccumulating(tables, trx) ==
  [name \in DOMAIN tables |->
     LET old == RowsOf(tables, name, trx.projectId, trx.date)
         before == IF old = {} THEN 0 ELSE (CHOOSE r \in old : TRUE).visits
     IN IF trx.ws[name].state = "kept" THEN tables[name]
        ELSE IF name = "overview"
             THEN (tables[name] \ old)
                    \cup {[r EXCEPT !.visits = @ + before] : r \in trx.ws[name].rows}
        ELSE (tables[name] \ old) \cup trx.ws[name].rows]

\* a plausible slip: the DELETE statements lack the event_date condition
ApplyDeletingProject(tables, trx) ==
  [name \in DOMAIN tables |->
     IF trx.ws[name].state = "kept" THEN tables[name]
     ELSE {r \in tables[name] : r.projectId # trx.projectId} \cup trx.ws[name].rows]

\* the committed tables with a transaction's work applied
ApplyWorkspace(tables, trx) ==
  [name \in DOMAIN tables |->
     IF trx.ws[name].state = "kept" THEN tables[name]
     ELSE (tables[name] \ RowsOf(tables, name, trx.projectId, trx.date))
            \cup trx.ws[name].rows]

\* a plausible slip: the statements run on the pool, outside a transaction, so
\* every statement is visible (and stays) as soon as it has run
VisibleWithoutTransaction(tables, trx) == ApplyWorkspace(tables, trx)

\* what other sessions see of an open transaction: nothing until COMMIT
VisibleBeforeCommit(tables, trx) == tables

\* the transaction after its next n statements have run in order against the
\* event rows committed now (fewer when fewer are left)
RunStatements(trx, n, eventTable) ==
  LET last == IF trx.stmt + n > StatementCount THEN StatementCount ELSE trx.stmt + n
      tableOf(name) == CHOOSE t \in DOMAIN TableNames : TableNames[t] = name
  IN [trx EXCEPT
        !.stmt = last,
        !.ws = [name \in DOMAIN trx.ws |->
                  IF 2 * tableOf(name) <= trx.stmt THEN trx.ws[name]
                  ELSE IF 2 * tableOf(name) <= last
                       THEN ExecStatement(trx, 2 * tableOf(name), eventTable).ws[name]
                  ELSE IF 2 * tableOf(name) - 1 <= last
                       THEN ExecStatement(trx, 2 * tableOf(name) - 1, eventTable).ws[name]
                  ELSE trx.ws[name]]]

----------------------------------------------------------------------------
(* Read cache: statsCache *)

\* serializeKey: namespace::projectId::identifier
serializeKey(namespace, projectId, identifier) == <<namespace, projectId, identifier>>

getCachedValue(entries, namespace, projectId, identifier) ==
  {e \in entries : e.key = serializeKey(namespace, projectId, identifier)}

setCachedValue(entries, namespace, projectId, identifier, value) ==
  {e \in entries : e.key # serializeKey(namespace, projectId, identifier)}
    \cup {[key |-> serializeKey(namespace, projectId, identifier), value |-> value]}

\* a plausible slip: only the overview entries of the project are deleted
InvalidateOverviewOnly(entries, projectId) ==
  {e \in entries : ~(e.key[1] = "overview" /\ e.key[2] = projectId)}

\* deletes every key whose second "::" part is the project id
invalidateProjectCache(entries, projectId) ==
  {e \in entries : e.key[2] # projectId}

----------------------------------------------------------------------------
(* Cached overview reader: getOverviewStats *)

ReadSlots == {"r1"}

\* a from / to query parameter that was not given
Absent == [date |-> 0, tod |-> 0, fmt |-> "absent"]

ReadParams ==
  {[granularity |-> "daily", from |-> Absent, to |-> Absent],
   [granularity |-> "monthly", from |-> Absent, to |-> Absent],
   [granularity |-> "daily", from |-> [date |-> 20250102, tod |-> 0, fmt |-> "ms"],
    to |-> Absent]}

\* undefined (here 0) for a missing input, else the "YYYY-MM-DD" prefix
normalizeDateToYYYYMMDD(input) ==
  IF input.fmt = "absent" THEN 0 ELSE ToISOString(ParseDate(input)).date

\* gte(field, from) when from is given, lte(field, to) when to is given
buildDateRangeFilters(value, from, to) ==
  /\ (from # 0 => value >= from)
  /\ (to # 0 => value <= to)

\* JSON.stringify({ granularity, from, to })
CacheKeyOf(params) ==
  <<params.granularity, normalizeDateToYYYYMMDD(params.from),
    normalizeDateToYYYYMMDD(params.to)>>

\* the start of the day, month or year of a date, spelled as an ISO timestamp
toPeriodStartKey(dateValue, granularity) ==
  LET start == CASE granularity = "daily" -> dateValue
                 [] granularity = "monthly" -> (dateValue \div 100) * 100 + 1
                 [] OTHER -> (dateValue \div 10000) * 10000 + 101
  IN ToISOString([valid |-> TRUE, date |-> start, tod |-> 0])

\* first query: the project_overview_daily rows of the project in the range
SelectDailyRows(tables, projectId, params) ==
  {[eventDate |-> r.eventDate, visits |-> r.visits, uniqueVisitors |-> r.uniqueVisitors] :
     r \in {x \in tables.overview :
              /\ x.projectId = projectId
              /\ buildDateRangeFilters(x.eventDate, normalizeDateToYYYYMMDD(params.from),
                                       normalizeDateToYYYYMMDD(params.to))}}

\* second query: COUNT(DISTINCT visitor_hash) per date_trunc period
SelectVisitorRows(tables, projectId, params) ==
  LET rows == {x \in tables.visitors :
                 /\ x.projectId = projectId
                 /\ buildDateRangeFilters(x.eventDate, normalizeDateToYYYYMMDD(params.from),
                                          normalizeDateToYYYYMMDD(params.to))}
      periods == {toPeriodStartKey(x.eventDate, params.granularity) : x \in rows}
  IN {[period |-> k,
       uniqueVisitors |->
         Cardinality({x.visitorHash :
                        x \in {y \in rows :
                                 toPeriodStartKey(y.eventDate, params.granularity) = k}})] :
        k \in periods}

RECURSIVE SumVisits(_)
SumVisits(rows) ==
  IF rows = {} THEN 0
  ELSE LET r == CHOOSE x \in rows : TRUE IN r.visits + SumVisits(rows \ {r})

\* lines 58-108: fold the rows into one point per period, sorted by period
OverviewPoints(dailyRows, visitorRows, granularity) ==
  LET visitsKeys == {toPeriodStartKey(r.eventDate, granularity) : r \in dailyRows}
      uniqueKeys == IF granularity = "daily" THEN visitsKeys
                    ELSE {v.period : v \in visitorRows}
      periods == SortAsc({k.date : k \in visitsKeys \cup uniqueKeys})
      rowsOf(k) == {r \in dailyRows : toPeriodStartKey(r.eventDate, granularity).date = k}
      uniqueOf(k) ==
        IF granularity = "daily"
        THEN (CHOOSE r \in rowsOf(k) : TRUE).uniqueVisitors
        ELSE IF \E v \in visitorRows : v.period.date = k
             THEN (CHOOSE v \in visitorRows : v.period.date = k).uniqueVisitors
             ELSE 0
  IN [j \in DOMAIN periods |->
        [period |-> ToISOString([valid |-> TRUE, date |-> periods[j], tod |-> 0]),
         visits |-> SumVisits(rowsOf(periods[j])),
         uniqueVisitors |-> uniqueOf(periods[j])]]

NoParams == [granularity |-> NoValue, from |-> Absent, to |-> Absent]

\* namespace tells the reader: "overview" for getOverviewStats, "pages" for
\* getPageStats
IdleRead ==
  [pc |-> "idle", seq |-> 0, namespace |-> NoValue, projectId |-> NoValue,
   params |-> NoParams, dailyRows |-> {}, pageRows |-> <<>>, visitorRows |-> {}]

NoRead == [seq |-> 0, namespace |-> NoValue, projectId |-> NoValue, params |-> NoParams,
           value |-> <<>>, hit |-> FALSE]

\* a plausible slip: an empty cached array is not taken for a hit
IsNonEmptyHit(cached) == cached # {} /\ \E e \in cached : e.value # <<>>

\* if (cached): undefined is the miss, every stored array is truthy
IsHit(cached) == cached # {}

\* lines 31-39: the call, up to the cache lookup; a hit returns at once
ReadStart(r, projectId, params) ==
  /\ readCount < MaxReads
  /\ reads[r].pc = "idle"
  /\ readCount' = readCount + 1
  /\ LET cached == getCachedValue(cache, "overview", projectId, CacheKeyOf(params))
     IN IF IsHit(cached)
        THEN /\ lastRead' = [seq |-> readCount + 1, namespace |-> "overview",
                             projectId |-> projectId, params |-> params,
                             value |-> (CHOOSE e \in cached : TRUE).value, hit |-> TRUE]
             /\ UNCHANGED reads
        ELSE /\ reads' = [reads EXCEPT ![r] =
                            [IdleRead EXCEPT !.pc = "queryOverview", !.seq = readCount + 1,
                                             !.namespace = "overview",
                                             !.projectId = projectId, !.params = params]]
             /\ UNCHANGED lastRead
  /\ UNCHANGED <<serviceVars, ingestVars, schedulerVars, scheduleCount, flushVars, cache>>

\* the database answers the first query (lines 48-56)
ReadQueryOverview(r) ==
  /\ reads[r].pc = "queryOverview"
  /\ reads' = [reads EXCEPT
                 ![r].dailyRows = SelectDailyRows(rollups, reads[r].projectId, reads[r].params),
                 ![r].pc = IF reads[r].params.granularity = "daily"
                           THEN "finish" ELSE "queryVisitors"]
  /\ UNCHANGED <<serviceVars, ingestVars, schedulerVars, scheduleCount, flushVars, cache, readCount,
                 lastRead>>

\* the database answers the second query of a monthly or yearly read (lines 73-94)
ReadQueryVisitors(r) ==
  /\ reads[r].pc = "queryVisitors"
  /\ reads' = [reads EXCEPT
                 ![r].visitorRows =
                    SelectVisitorRows(rollups, reads[r].projectId, reads[r].params),
                 ![r].pc = "finish"]
  /\ UNCHANGED <<serviceVars, ingestVars, schedulerVars, scheduleCount, flushVars, cache, readCount,
                 lastRead>>

\* the call resumes with the rows: build the result, cache it, return it
ReadFinish(r) ==
  /\ reads[r].pc = "finish"
  /\ LET read == reads[r]
         result == OverviewPoints(read.dailyRows, read.visitorRows,
                                  read.params.granularity)
     IN /\ cache' = setCachedValue(cache, "overview", read.projectId,
                                   CacheKeyOf(read.params), result)
        /\ lastRead' = [seq |-> read.seq, namespace |-> "overview",
                        projectId |-> read.projectId,
                        params |-> read.params, value |-> result, hit |-> FALSE]
  /\ reads' = [reads EXCEPT ![r] = IdleRead]
  /\ UNCHANGED <<serviceVars, ingestVars, schedulerVars, scheduleCount, flushVars, readCount>>

\* stdTTL: an entry expires 60 s after it was set
CacheExpire ==
  /\ \E e \in cache : cache' = cache \ {e}
  /\ UNCHANGED <<serviceVars, ingestVars, schedulerVars, scheduleCount, flushVars, readVars>>

----------------------------------------------------------------------------
(* Aggregation scheduler: the setImmediate callback and flushQueue *)

\* flushQueue executions that may overlap, in the order their slots are taken
FlushIds == {1, 2}

EmptyLog == [attempted |-> <<>>, rebuilt |-> <<>>, invalidated |-> 0, failed |-> FALSE]

IdleFlush ==
  [pc |-> "idle", entries |-> <<>>, i |-> 0, rest |-> <<>>, trx |-> NoTrx, log |-> <<>>]

NoFlush == [entries |-> <<>>, log |-> <<>>]

\* a plausible slip: the flag is never reset
FlagStaysSet == TRUE

\* flushScheduled after the first statement of the callback (line 35)
FlagAfterCallback == FALSE

\* the for loop of flushQueue from entry number `from` on: entries with an empty
\* date set are skipped; the first other entry has its dates sorted and the
\* rebuild of its first date begun.  pc "done" when no entry is left.
EnterFrom(flush, from) ==
  LET candidates == {j \in DOMAIN flush.entries : j >= from /\ flush.entries[j].dates # {}}
  IN IF candidates = {}
     THEN [flush EXCEPT !.pc = "done", !.i = Len(flush.entries) + 1, !.rest = <<>>,
                        !.trx = NoTrx]
     ELSE LET j == CHOOSE x \in candidates : \A y \in candidates : x <= y
              sortedDates == SortAsc(flush.entries[j].dates)
          IN [flush EXCEPT !.pc = "busy", !.i = j, !.rest = sortedDates,
                           !.trx = BeginTrx(flush.entries[j].projectId, sortedDates[1]),
                           !.log[j].attempted = <<sortedDates[1]>>]

\* the flush record is dropped when flushQueue returns
Retire(f, flush) ==
  IF flush.pc = "done"
  THEN /\ flushes' = [flushes EXCEPT ![f] = IdleFlush]
       /\ lastFlush' = [entries |-> flush.entries, log |-> flush.log]
  ELSE /\ flushes' = [flushes EXCEPT ![f] = flush]
       /\ UNCHANGED lastFlush

\* the setImmediate callback: flushScheduled = false, then flushQueue up to its
\* first await (lines 34-55)
FlushCallback(f) ==
  /\ immediates > 0
  /\ flushes[f].pc = "idle"
  /\ \A g \in FlushIds : g < f => flushes[g].pc # "idle"
  /\ immediates' = immediates - 1
  /\ flushScheduled' = FlagAfterCallback
  /\ pendingAggregations' = <<>>
  /\ Retire(f, EnterFrom([IdleFlush EXCEPT
                            !.entries = pendingAggregations,
                            !.log = [j \in DOMAIN pendingAggregations |-> EmptyLog]], 1))
  /\ UNCHANGED <<serviceVars, ingestVars, scheduleCount, rollups, settled, cache, readVars>>

\* the database runs the next n round trips of the open transaction: the
\* statements in order, then COMMIT
TrxAdvance(f, n) ==
  /\ flushes[f].pc = "busy"
  /\ flushes[f].trx.state = "open"
  /\ LET trx == flushes[f].trx
         ran == RunStatements(trx, n, events)
         commits == trx.stmt + n > StatementCount
     IN IF commits
        THEN /\ flushes' = [flushes EXCEPT ![f].trx = [ran EXCEPT !.state = "committed"]]
             /\ rollups' = ApplyWorkspace(rollups, ran)
             /\ settled' = [settled EXCEPT ![trx.projectId] = FALSE]
        ELSE /\ flushes' = [flushes EXCEPT ![f].trx = ran]
             /\ rollups' = VisibleBeforeCommit(rollups, ran)
             /\ UNCHANGED settled
  /\ UNCHANGED <<serviceVars, ingestVars, schedulerVars, scheduleCount, lastFlush, cache, readVars>>

\* the next statement (or COMMIT) fails: the transaction is rolled back and the
\* promise of sqlClient.begin rejects
TrxFails(f) ==
  /\ flushes[f].pc = "busy"
  /\ flushes[f].trx.state = "open"
  /\ flushes' = [flushes EXCEPT ![f].trx.state = "failed"]
  /\ rollups' = VisibleBeforeCommit(rollups, NoTrx)
  /\ UNCHANGED <<serviceVars, ingestVars, schedulerVars, scheduleCount, lastFlush, settled, cache, readVars>>

\* a plausible slip: invalidateProjectCache inside the date loop
InvalidatesAfterEveryDate(rest) == TRUE

\* whether invalidateProjectCache follows the rebuild of Head(rest): line 57 is
\* behind the date loop, so only the last date is followed by it
InvalidatesAfter(rest) == Len(rest) = 1

\* a plausible slip: no try / catch around the date loop, so the rejection
\* leaves flushQueue and the remaining entries are never visited
AfterUncaught(flush, i) ==
  [flush EXCEPT !.log[i].failed = TRUE, !.pc = "done", !.i = Len(flush.entries) + 1,
                !.rest = <<>>, !.trx = NoTrx]

\* a plausible slip: try / catch inside the date loop, so the loop goes on with
\* the next date of the project
AfterCatchNextDate(flush, i) ==
  IF Len(flush.rest) > 1
  THEN [flush EXCEPT !.log[i].failed = TRUE, !.rest = Tail(flush.rest),
                     !.trx = BeginTrx(flush.entries[i].projectId, flush.rest[2]),
                     !.log[i].attempted = Append(@, flush.rest[2])]
  ELSE EnterFrom([flush EXCEPT !.log[i].failed = TRUE], i + 1)

\* the catch block (lines 58-60) logs, and the for loop goes on with the next entry
AfterCatch(flush, i) == EnterFrom([flush EXCEPT !.log[i].failed = TRUE], i + 1)

\* flushQueue resumes after `await recomputeDailyAggregates` (lines 54-61): the
\* next date of the project, or invalidateProjectCache and the next project; a
\* rejection goes to the catch block
FlushContinue(f) ==
  /\ flushes[f].pc = "busy"
  /\ flushes[f].trx.state \in {"committed", "failed"}
  /\ LET flush == flushes[f]
         i == flush.i
         projectId == flush.entries[i].projectId
     IN IF flush.trx.state = "failed"
        THEN /\ Retire(f, AfterCatch(flush, i))
             /\ UNCHANGED <<cache, settled>>
        ELSE LET invalidates == InvalidatesAfter(flush.rest)
                 rebuilt == [flush EXCEPT
                               !.log[i].rebuilt = Append(@, flush.trx.date),
                               !.log[i].invalidated = IF invalidates THEN @ + 1 ELSE @]
             IN /\ IF invalidates
                   THEN /\ cache' = invalidateProjectCache(cache, projectId)
                        /\ settled' = [settled EXCEPT ![projectId] = TRUE]
                   ELSE UNCHANGED <<cache, settled>>
                /\ IF Len(flush.rest) > 1
                   THEN Retire(f, [rebuilt EXCEPT
                                     !.rest = Tail(flush.rest),
                                     !.trx = BeginTrx(projectId, flush.rest[2]),
                                     !.log[i].attempted = Append(@, flush.rest[2])])
                   ELSE Retire(f, EnterFrom(rebuilt, i + 1))
  /\ UNCHANGED <<serviceVars, ingestVars, schedulerVars, scheduleCount, rollups, readVars>>

\* a direct call of the exported scheduleProjectAggregation
Schedule(projectId, occurredAtValues) ==
  /\ scheduleCount < MaxSchedules
  /\ scheduleCount' = scheduleCount + 1
  /\ scheduleProjectAggregation(projectId, occurredAtValues)
  /\ UNCHANGED <<serviceVars, ingestVars, flushVars, cache, readVars>>

----------------------------------------------------------------------------
(* Ingestion alone: concurrent ingestEvents calls against the event store *)

\* no rebuildProjectAggregates call has been made
IdleBulk ==
  [pc |-> "idle", projectId |-> NoValue, from |-> Absent, to |-> Absent, seen |-> {},
   dates |-> <<>>, rest |-> <<>>, trx |-> NoTrx, attempted |-> <<>>, rebuilt |-> <<>>,
   invalidated |-> 0, error |-> NoValue]

\* no statsCache call has been made from outside the pipeline
IdleCacheOp == [op |-> "idle", projectId |-> NoValue, removed |-> {}]

\* no ProjectRateLimiter has been constructed; the clock at 0.  limits holds
\* <<>> for a project without an entry and <<window>> for one with an entry;
\* granted and windowEnd record, for each project, the calls answered true since
\* the call that opened its window and the time that window ends (0: none yet)
NoLimiter ==
  [constructed |-> FALSE, maxRequests |-> 0, windowMs |-> 0,
   limits |-> [p \in Projects |-> <<>>], now |-> 0,
   projectId |-> NoValue, allowed |-> FALSE,
   granted |-> [p \in Projects |-> 0], windowEnd |-> [p \in Projects |-> 0],
   refusedAt |-> [p \in Projects |-> -1]]

\* no funnelService call has been made
IdleFunnelCall == [op |-> "idle", args |-> <<>>, pc |-> "done", result |-> [kind |-> "none"]]

ServicesIdle ==
  /\ bulk = IdleBulk
  /\ funnelTables = [funnels |-> ProjectFunnels, steps |-> ProjectFunnelSteps]
  /\ funnelCall = IdleFunnelCall
  /\ funnelWrite = IdleFunnelCall
  /\ cacheOp = IdleCacheOp
  /\ limiter = NoLimiter

\* a fresh process over an empty database
Init ==
  /\ events = {}
  /\ calls = [c \in CallSlots |-> IdleCall]
  /\ ingestCount = 0
  /\ lastResult = NoResult
  /\ pendingAggregations = <<>>
  /\ flushScheduled = FALSE
  /\ immediates = 0
  /\ scheduleCount = 0
  /\ flushes = [f \in FlushIds |-> IdleFlush]
  /\ lastFlush = NoFlush
  /\ rollups = EmptyRollups
  /\ cache = {}
  /\ reads = [r \in ReadSlots |-> IdleRead]
  /\ readCount = 0
  /\ lastRead = NoRead
  /\ settled = [p \in Projects |-> TRUE]
  /\ ServicesIdle

InitIngest == Init

NextIngest ==
  \/ \E c \in CallSlots, p \in Projects, b \in IngestBatches : IngestStart(c, p, b)
  \/ \E c \in CallSlots : IngestInvalidTimestamp(c)
  \/ \E c \in CallSlots : IngestInsert(c)
  \/ \E c \in CallSlots : IngestInsertFails(c)
  \/ \E c \in CallSlots : IngestReturn(c)

SpecIngest == InitIngest /\ [][NextIngest]_vars

----------------------------------------------------------------------------
(* Claims about ingestion *)

CallPayloadKey(c, i) == IdempotencyKey(calls[c].payloads[i])

InsertStep(c) == calls[c].pc = "validated" /\ calls'[c].pc = "inserted"
ReturnStep(c) == calls[c].pc = "inserted" /\ calls'[c].pc = "idle"

\* C1: a single-event batch is accepted (accepted=1, skipped=0) when its key is
\* not yet stored for the project, and a later submission of the same payload
\* to the same project returns accepted=0, skipped=1, total=1; either way the
\* store then holds exactly one row under that (project, key).
C1_ResubmissionIsSkipped ==
  [][\A c \in CallSlots :
       LET p == calls[c].projectId
           key == CallPayloadKey(c, 1)
       IN /\ (InsertStep(c) /\ Len(calls[c].payloads) = 1) =>
               /\ RowsWithKey(events, p, key) = {} => Cardinality(calls'[c].inserted) = 1
               /\ RowsWithKey(events, p, key) # {} =>
                    (calls'[c].inserted = {} /\ events' = events)
               /\ Cardinality(RowsWithKey(events', p, key)) = 1
          /\ (ReturnStep(c) /\ Len(calls[c].payloads) = 1) =>
               /\ calls[c].inserted # {} => lastResult' = OkResult(p, 1, 1, 0)
               /\ calls[c].inserted = {} => lastResult' = OkResult(p, 0, 1, 1)
               /\ Cardinality(RowsWithKey(events', p, key)) = 1]_vars

\* the second submission of a stored payload has just returned accepted=0, skipped=1
C1_Witness ==
  /\ lastResult = OkResult("p1", 0, 1, 1)
  /\ Cardinality(RowsWithKey(events, "p1", IdempotencyKey(PayView))) = 1

\* C2: every ingestEvents call that returns normally returns accepted + skipped
\* = total with total the number of submitted events and both counts >= 0, also
\* for batches with repeated keys and batches mixing new and stored events.
C2_CountsAddUp ==
  [][\A c \in CallSlots :
       ReturnStep(c) =>
         /\ lastResult'.kind = "ok"
         /\ lastResult'.total = Len(calls[c].payloads)
         /\ lastResult'.accepted + lastResult'.skipped = lastResult'.total
         /\ lastResult'.accepted >= 0
         /\ lastResult'.skipped >= 0]_vars

\* a batch of two events returned with one accepted and one skipped
C2_Witness ==
  lastResult.kind = "ok" /\ lastResult.total = 2
  /\ lastResult.accepted = 1 /\ lastResult.skipped = 1

UniqueIdempotencyKeys ==
  \A r1, r2 \in events :
    (r1.projectId = r2.projectId /\ r1.idempotencyKey = r2.idempotencyKey) => r1 = r2

\* the keys a call's insert statement reported as inserted
AcceptedKeys(c) == {id[2] : id \in calls[c].inserted}

\* C3: the event store never holds two rows with the same (project id,
\* idempotency key), also when calls for one project overlap; a key submitted
\* by several calls is inserted (accepted) by exactly one of them, skipped by
\* the others, and a duplicate never makes the call fail.
C3_AcceptedOnce ==
  /\ []UniqueIdempotencyKeys
  /\ [](\A c1, c2 \in CallSlots :
          (c1 # c2 /\ calls[c1].pc = "inserted" /\ calls[c2].pc = "inserted"
           /\ calls[c1].projectId = calls[c2].projectId)
            => AcceptedKeys(c1) \cap AcceptedKeys(c2) = {})
  /\ [][\A c \in CallSlots :
          InsertStep(c) =>
            \A i \in DOMAIN calls[c].payloads :
              LET p == calls[c].projectId
                  key == CallPayloadKey(c, i)
              IN /\ Cardinality(RowsWithKey(events', p, key)) = 1
                 /\ (key \in {id[2] : id \in calls'[c].inserted})
                      <=> (RowsWithKey(events, p, key) = {})]_vars

\* two overlapping calls for one project submitted the same key: one inserted
\* it, the other skipped it
C3_Witness ==
  /\ calls["c1"].pc = "inserted" /\ calls["c2"].pc = "inserted"
  /\ calls["c1"].projectId = calls["c2"].projectId
  /\ calls["c1"].payloads = <<PayKeyed>> /\ calls["c2"].payloads = <<PayKeyed>>
  /\ Cardinality(calls["c1"].inserted) = 1 /\ calls["c2"].inserted = {}

\* the scheduler was not signalled in this step
SchedulerUntouched ==
  /\ pendingAggregations' = pendingAggregations
  /\ flushScheduled' = flushScheduled
  /\ immediates' = immediates

\* a step in which ingestEvents is called and returns or throws at once
ImmediateReturnStep == ingestCount' = ingestCount + 1 /\ calls' = calls

\* C17: a batch of more than MAX_BATCH events never reaches the row building or
\* the insert, and the call that throws for the batch size inserts no event and
\* does not signal the scheduler.
C17_OversizeBatchRejected ==
  /\ [](\A c \in CallSlots : Len(calls[c].payloads) <= MAX_BATCH
                              /\ Len(calls[c].rows) <= MAX_BATCH)
  /\ [][(ImmediateReturnStep /\ lastResult'.kind = "error") =>
          /\ lastResult'.error = "batch too large"
          /\ events' = events
          /\ SchedulerUntouched]_vars

\* a call with too many events threw over a store that already held an event,
\* which is all the store holds
C17_Witness ==
  /\ lastResult = Thrown("p1", "batch too large")
  /\ Cardinality(events) = 1
  /\ \A c \in CallSlots : calls[c].pc = "idle"

HasInvalidTimestamp(payloads) ==
  \E i \in DOMAIN payloads : ~ParseDate(payloads[i].timestamp).valid

\* C18: a call whose batch holds an unparsable timestamp never inserts: its
\* next step throws "invalid timestamp", stores no event of the batch (valid
\* ones before the invalid one included) and does not signal the scheduler.
C18_InvalidTimestampFailsBatch ==
  [][\A c \in CallSlots :
       (calls[c].pc = "validated" /\ HasInvalidTimestamp(calls[c].payloads)
        /\ calls'[c] # calls[c]) =>
          /\ calls'[c] = IdleCall
          /\ lastResult' = Thrown(calls[c].projectId, "invalid timestamp")
          /\ events' = events
          /\ SchedulerUntouched]_vars

\* a batch with an unparsable timestamp threw and nothing is stored or pending
C18_Witness ==
  /\ lastResult = Thrown("p1", "invalid timestamp")
  /\ events = {}
  /\ pendingAggregations = <<>>
  /\ immediates = 0

\* the calendar dates of the rows the insert of call c returned
AcceptedDates(c) ==
  {normalizeDate(ToISOString(calls[c].rows[i].occurredAt)) :
     i \in {j \in DOMAIN calls[c].rows :
              calls[c].rows[j].idempotencyKey \in AcceptedKeys(c)}}

\* C19: when a call that accepted at least one row returns, the dates added to
\* the project's pending set are exactly the dates of its accepted rows; the
\* date of a skipped row is added only if an accepted row falls on it.
C19_SignalsAcceptedDatesOnly ==
  [][\A c \in CallSlots :
       (ReturnStep(c) /\ calls[c].inserted # {}) =>
          PendingDates(pendingAggregations', calls[c].projectId) =
            PendingDates(pendingAggregations, calls[c].projectId) \cup AcceptedDates(c)]_vars

\* C20: an event without an explicit key is skipped by the insert only as the
\* duplicate of a stored event of the same visitor identity (same user hash and
\* same session hash): events that differ in user_id never share a derived key.
C20_DerivedKeySeparatesIdentities ==
  [][\A c \in CallSlots :
       InsertStep(c) =>
         \A i \in DOMAIN calls[c].payloads :
           (calls[c].payloads[i].idempotency_key = NoHash
            /\ CallPayloadKey(c, i) \notin {id[2] : id \in calls'[c].inserted}) =>
              \A e \in RowsWithKey(events', calls[c].projectId, CallPayloadKey(c, i)) :
                /\ e.userHash = calls'[c].rows[i].userHash
                /\ e.sessionHash = calls'[c].rows[i].sessionHash]_vars

----------------------------------------------------------------------------
(* The scheduler alone: direct scheduleProjectAggregation calls over a fixed
   event store, each rebuild transaction run as one database step *)

\* events stored by earlier ingestEvents calls: two days of p1, one day of p2
SeedEvents ==
  InsertOnConflictDoNothing({},
    <<EventRow("p1", PayView, {}, {}), EventRow("p1", PayKeyed, {}, {}),
      EventRow("p2", PayView, {}, {})>>, {}).table

T1 == [date |-> 20250101, tod |-> 10, fmt |-> "ms"]
T1Later == [date |-> 20250101, tod |-> 11, fmt |-> "ms"]
T2 == [date |-> 20250102, tod |-> 9, fmt |-> "ms"]

ScheduleInputs == {<<>>, <<Garbage>>, <<T1>>, <<T1, T1Later>>, <<T2, T1>>}

InitSched ==
  /\ events = SeedEvents
  /\ calls = [c \in CallSlots |-> IdleCall]
  /\ ingestCount = 0
  /\ lastResult = NoResult
  /\ pendingAggregations = <<>>
  /\ flushScheduled = FALSE
  /\ immediates = 0
  /\ scheduleCount = 0
  /\ flushes = [f \in FlushIds |-> IdleFlush]
  /\ lastFlush = NoFlush
  /\ rollups = EmptyRollups
  /\ cache = {}
  /\ reads = [r \in ReadSlots |-> IdleRead]
  /\ readCount = 0
  /\ lastRead = NoRead
  /\ settled = [p \in Projects |-> TRUE]
  /\ ServicesIdle

NextSched ==
  \/ \E p \in Projects, values \in ScheduleInputs : Schedule(p, values)
  \/ \E f \in FlushIds : FlushCallback(f)
  \/ \E f \in FlushIds : TrxAdvance(f, StatementCount + 1)
  \/ \E f \in FlushIds : TrxFails(f)
  \/ \E f \in FlushIds : FlushContinue(f)

SpecSched == InitSched /\ [][NextSched]_vars

\* a call that names two dates, the later one first
LateInputs == {<<T2, T1>>}

NextLive ==
  \/ \E p \in Projects, values \in LateInputs : Schedule(p, values)
  \/ \E f \in FlushIds : FlushCallback(f)
  \/ \E f \in FlushIds : TrxAdvance(f, StatementCount + 1)
  \/ \E f \in FlushIds : TrxFails(f)
  \/ \E f \in FlushIds : FlushContinue(f)

\* the event loop runs every queued callback and continuation, and the database
\* answers every request
FairSched ==
  /\ InitSched /\ [][NextLive]_vars
  /\ WF_vars(\E f \in FlushIds : FlushCallback(f))
  /\ \A f \in FlushIds : WF_vars(TrxAdvance(f, StatementCount + 1))
  /\ \A f \in FlushIds : WF_vars(FlushContinue(f))

----------------------------------------------------------------------------
(* Claims about the scheduler *)

Busy(f) == flushes[f].pc = "busy"

IsPrefix(a, b) == Len(a) <= Len(b) /\ \A k \in DOMAIN a : a[k] = b[k]

Elements(a) == {a[k] : k \in DOMAIN a}

\* every flushQueue execution on record: those in flight and the one that ended last
FlushRecords ==
  {[entries |-> flushes[f].entries, log |-> flushes[f].log, passed |-> flushes[f].i - 1] :
     f \in {g \in FlushIds : Busy(g)}}
    \cup {[entries |-> lastFlush.entries, log |-> lastFlush.log,
           passed |-> Len(lastFlush.entries)]}

\* a step in which scheduleProjectAggregation is called directly
ScheduleStep == scheduleCount' = scheduleCount + 1

\* a step in which the setImmediate callback runs
CallbackStep == immediates' = immediates - 1

\* the flushQueue execution begun by this step took `snapshot`
BeginsWith(snapshot) ==
  \E f \in FlushIds :
    /\ ~Busy(f)
    /\ \/ flushes'[f].pc = "busy" /\ flushes'[f].entries = snapshot
       \/ flushes'[f].pc = "idle" /\ lastFlush'.entries = snapshot

\* C5 as stated: any number of scheduleProjectAggregation calls before the
\* next tick leave one flush scheduled, and every flush runs exactly one
\* rebuild for each distinct pending date of each project.
C5_OneRebuildPerDate ==
  /\ immediates <= 1
  /\ \A j \in DOMAIN lastFlush.entries :
       lastFlush.log[j].attempted = SortAsc(lastFlush.entries[j].dates)

\* C5 amended: calls before the next tick merge their distinct dates into one
\* pending set per project and leave exactly one flush scheduled; the flush takes
\* the whole pending map and runs at most one rebuild per distinct date, in
\* ascending order, and exactly one per date for every project none of whose
\* rebuilds fails (after a failed rebuild the project's later dates are dropped).
C5_CoalescedFlush ==
  /\ [](/\ immediates <= 1
        /\ (\E p \in Projects : PendingDates(pendingAggregations, p) # {})
              => immediates = 1 /\ flushScheduled
        /\ \A p \in Projects : Cardinality(PendingIndex(pendingAggregations, p)) <= 1
        /\ \A rec \in FlushRecords : \A j \in DOMAIN rec.entries :
             /\ IsPrefix(rec.log[j].attempted, SortAsc(rec.entries[j].dates))
             /\ (j <= rec.passed /\ ~rec.log[j].failed
                   => rec.log[j].attempted = SortAsc(rec.entries[j].dates)))
  /\ [][/\ ScheduleStep =>
             /\ \A p \in Projects : PendingDates(pendingAggregations, p)
                                      \subseteq PendingDates(pendingAggregations', p)
             /\ \A f \in FlushIds : flushes'[f] = flushes[f]
        /\ CallbackStep => pendingAggregations' = <<>> /\ BeginsWith(pendingAggregations)]_vars

\* two calls with four timestamps for one project before the tick, then one
\* flush that rebuilt the two distinct dates once each
C5_Witness ==
  /\ scheduleCount >= 2
  /\ immediates = 0
  /\ \A f \in FlushIds : ~Busy(f)
  /\ Len(lastFlush.entries) = 1
  /\ lastFlush.entries[1].dates = {20250101, 20250102}
  /\ lastFlush.log[1].rebuilt = <<20250101, 20250102>>

\* C6: at most one flushQueue execution is in flight at any time.
C6_OneFlushInFlight == Cardinality({f \in FlushIds : Busy(f)}) <= 1

PendingHasDates == \E p \in Projects : PendingDates(pendingAggregations, p) # {}

\* C7: a scheduleProjectAggregation call that arrives while a flush is in flight
\* changes no snapshot in flight and adds its dates to the pending map; the
\* pending map is taken whole by a later flush, and that flush ends having
\* rebuilt every date of every project none of whose rebuilds failed in it.
C7_LateNotifyIsRebuilt ==
  /\ [][/\ \A f \in FlushIds :
             Busy(f) /\ flushes'[f].pc = "busy" => flushes'[f].entries = flushes[f].entries
        /\ (ScheduleStep /\ \E f \in FlushIds : Busy(f)) =>
             \A p \in Projects : PendingDates(pendingAggregations, p)
                                   \subseteq PendingDates(pendingAggregations', p)
        /\ CallbackStep => pendingAggregations' = <<>> /\ BeginsWith(pendingAggregations)]_vars
  /\ [](\A j \in DOMAIN lastFlush.entries :
          ~lastFlush.log[j].failed =>
             lastFlush.log[j].rebuilt = SortAsc(lastFlush.entries[j].dates))
  /\ PendingHasDates ~> (pendingAggregations = <<>>)
  /\ \A f \in FlushIds : Busy(f) ~> ~Busy(f)

\* a call arrived while flush 1 was in flight: its date went to a new set, which
\* flush 2 took and rebuilt while flush 1 is still in flight
C7_Witness ==
  /\ Busy(1)
  /\ flushes[1].trx.state = "open"
  /\ flushes[2].trx.state = "committed"
  /\ flushes[1].entries[1].projectId = flushes[2].entries[1].projectId

\* C8 as stated: in every flush, every project with pending dates has each date
\* rebuilt in ascending order and then its cache invalidated exactly once.
C8_RebuildAllThenInvalidateOnce ==
  \A j \in DOMAIN lastFlush.entries :
    lastFlush.entries[j].dates # {} =>
      /\ lastFlush.log[j].rebuilt = SortAsc(lastFlush.entries[j].dates)
      /\ lastFlush.log[j].invalidated = 1

\* C8 amended: within one flush the dates of a project are rebuilt in ascending
\* order; its cache is invalidated at most once, never between two of its
\* rebuilds and never before its last pending date has committed; and exactly
\* once when every rebuild of the project commits.
C8_InvalidateAfterLastDate ==
  \A rec \in FlushRecords : \A j \in DOMAIN rec.entries :
    /\ IsPrefix(rec.log[j].attempted, SortAsc(rec.entries[j].dates))
    /\ IsPrefix(rec.log[j].rebuilt, rec.log[j].attempted)
    /\ rec.log[j].invalidated <= 1
    /\ rec.log[j].invalidated = 1 =>
         rec.log[j].rebuilt = SortAsc(rec.entries[j].dates) /\ ~rec.log[j].failed
    /\ (j <= rec.passed /\ rec.entries[j].dates # {} /\ ~rec.log[j].failed) =>
         rec.log[j].invalidated = 1

\* a flush rebuilt two dates of a project, then invalidated its cache once
C8_Witness ==
  \E j \in DOMAIN lastFlush.entries :
    /\ lastFlush.log[j].rebuilt = <<20250101, 20250102>>
    /\ lastFlush.log[j].invalidated = 1

\* C9: when the rebuild of a date of one project fails in a flush, every other
\* project of the snapshot whose own rebuilds do not fail has all its dates
\* rebuilt and its cache invalidated; the flush ends, and a flush scheduled
\* afterwards runs.
C9_FailureIsIsolated ==
  /\ [](\A rec \in FlushRecords : \A j, k \in DOMAIN rec.entries :
          (/\ rec.log[j].failed
           /\ k # j /\ k <= rec.passed
           /\ rec.entries[k].dates # {} /\ ~rec.log[k].failed)
            => /\ rec.log[k].rebuilt = SortAsc(rec.entries[k].dates)
               /\ rec.log[k].invalidated = 1)
  /\ \A f \in FlushIds : (Busy(f) /\ flushes[f].trx.state = "failed") ~> ~Busy(f)
  /\ (immediates = 1) ~> (immediates = 0)

\* the first project of a snapshot failed, the second one was rebuilt and invalidated
C9_Witness ==
  /\ Len(lastFlush.entries) = 2
  /\ lastFlush.log[1].failed
  /\ lastFlush.log[2].rebuilt = SortAsc(lastFlush.entries[2].dates)
  /\ lastFlush.log[2].rebuilt # <<>>
  /\ lastFlush.log[2].invalidated = 1

----------------------------------------------------------------------------
(* Ingestion and flushes, each rebuild transaction run statement by statement *)

PipelineBatches == {<<PayView>>, <<PayKeyed, PayView>>, <<PayBad>>}

NextRebuild ==
  \/ \E b \in PipelineBatches : IngestStart("c1", "p1", b)
  \/ IngestInvalidTimestamp("c1")
  \/ IngestInsert("c1")
  \/ IngestInsertFails("c1")
  \/ IngestReturn("c1")
  \/ \E f \in FlushIds : FlushCallback(f)
  \/ \E f \in FlushIds : TrxAdvance(f, 1)
  \/ \E f \in FlushIds : TrxFails(f)
  \/ \E f \in FlushIds : FlushContinue(f)

SpecRebuild == Init /\ [][NextRebuild]_vars

----------------------------------------------------------------------------
(* Claims about the rebuild transaction *)

TableSet == {TableNames[k] : k \in DOMAIN TableNames}

----------------------------------------------------------------------------
(* The whole pipeline: ingestion, flushes and cached overview reads *)

Next ==
  \/ \E b \in PipelineBatches : IngestStart("c1", "p1", b)
  \/ IngestInvalidTimestamp("c1")
  \/ IngestInsert("c1")
  \/ IngestInsertFails("c1")
  \/ IngestReturn("c1")
  \/ \E f \in FlushIds : FlushCallback(f)
  \/ \E f \in FlushIds : TrxAdvance(f, StatementCount + 1)
  \/ \E f \in FlushIds : TrxFails(f)
  \/ \E f \in FlushIds : FlushContinue(f)
  \/ \E r \in ReadSlots, params \in ReadParams : ReadStart(r, "p1", params)
  \/ \E r \in ReadSlots : ReadQueryOverview(r)
  \/ \E r \in ReadSlots : ReadQueryVisitors(r)
  \/ \E r \in ReadSlots : ReadFinish(r)
  \/ CacheExpire

Spec == Init /\ [][Next]_vars

----------------------------------------------------------------------------
(* Claims about cached reads *)

\* what getOverviewStats computes from the rollup tables as they are now
FreshOverview(tables, projectId, params) ==
  OverviewPoints(SelectDailyRows(tables, projectId, params),
                 SelectVisitorRows(tables, projectId, params), params.granularity)

\* a step in which a getOverviewStats call begins and returns the cached value
CacheHitStep == readCount' = readCount + 1 /\ lastRead'.seq = readCount'

\* C4: once a rebuild has committed and invalidateProjectCache has run, every
\* getOverviewStats call that begins afterwards returns the result computed from
\* the rollup rows as they then are.
C4_FreshAfterInvalidation ==
  [][(CacheHitStep /\ settled[lastRead'.projectId])
       => lastRead'.value = FreshOverview(rollups, lastRead'.projectId, lastRead'.params)]_vars

----------------------------------------------------------------------------
(* Visitor identity: events of one day that differ in their identifiers *)

\* the signed-in user u1 on a second device (session s2), a second later
PayUserS2 ==
  [BasePayload EXCEPT !.timestamp = [date |-> 20250101, tod |-> 11, fmt |-> "ms"],
                      !.session_id = "s2", !.user_id = "u1"]

\* two views that carry the anonymous id a1 and neither session nor user id
PayAnonA ==
  [BasePayload EXCEPT !.timestamp = [date |-> 20250101, tod |-> 12, fmt |-> "ms"],
                      !.session_id = NoValue, !.anon_id = "a1"]

PayAnonB ==
  [BasePayload EXCEPT !.timestamp = [date |-> 20250101, tod |-> 13, fmt |-> "ms"],
                      !.session_id = NoValue, !.anon_id = "a1"]

\* the event table after the rows of the payloads were inserted for p1
StoreOf(payloads) ==
  InsertOnConflictDoNothing({},
    [i \in DOMAIN payloads |-> EventRow("p1", payloads[i], {}, {})], {}).table

----------------------------------------------------------------------------
(* Rebuilds over an event store that does not change *)

RecomputeStores ==
  {SeedEvents, StoreOf(<<PayViewUser, PayUserS2, PayKeyed>>), StoreOf(<<PayAnonA, PayAnonB>>)}

RecomputeInputs == {<<T1>>, <<T2, T1>>}

InitRecompute ==
  /\ events \in RecomputeStores
  /\ calls = [c \in CallSlots |-> IdleCall]
  /\ ingestCount = 0
  /\ lastResult = NoResult
  /\ pendingAggregations = <<>>
  /\ flushScheduled = FALSE
  /\ immediates = 0
  /\ scheduleCount = 0
  /\ flushes = [f \in FlushIds |-> IdleFlush]
  /\ lastFlush = NoFlush
  /\ rollups = EmptyRollups
  /\ cache = {}
  /\ reads = [r \in ReadSlots |-> IdleRead]
  /\ readCount = 0
  /\ lastRead = NoRead
  /\ settled = [p \in Projects |-> TRUE]
  /\ ServicesIdle

NextRecompute ==
  \/ \E values \in RecomputeInputs : Schedule("p1", values)
  \/ \E f \in FlushIds : FlushCallback(f)
  \/ \E f \in FlushIds : TrxAdvance(f, 1)
  \/ \E f \in FlushIds : TrxFails(f)
  \/ \E f \in FlushIds : FlushContinue(f)

SpecRecompute == InitRecompute /\ [][NextRecompute]_vars

\* the COMMIT of a rebuild of (p, d)
CommitStep(p, d) ==
  \E f \in FlushIds :
    /\ flushes[f].trx.state = "open"
    /\ flushes[f].trx.projectId = p /\ flushes[f].trx.date = d
    /\ flushes'[f].trx.state = "committed"

\* the four tables hold for (p, d) what a rebuild over the event table computes
RebuiltFrom(tables, eventTable, p, d) ==
  \A name \in TableSet :
    RowsOf(tables, name, p, d) = SelectFor(name, eventTable, p, d)

----------------------------------------------------------------------------
(* Visitor keys of the read paths, and the pipeline over identity batches *)

\* COALESCE(session_hash, user_hash, id) of getRealtimeStats
RealtimeVisitorExpr(e) ==
  IF e.sessionHash # NoHash THEN e.sessionHash
  ELSE IF e.userHash # NoHash THEN e.userHash
  ELSE e.id

\* COALESCE(session_hash, user_hash, id) of the funnel step statistics
FunnelVisitorExpr(e) ==
  IF e.sessionHash # NoHash THEN e.sessionHash
  ELSE IF e.userHash # NoHash THEN e.userHash
  ELSE e.id

\* COALESCE(user_hash, session_hash, id) of the event summary
EventSummaryVisitorExpr(e) ==
  IF e.userHash # NoHash THEN e.userHash
  ELSE IF e.sessionHash # NoHash THEN e.sessionHash
  ELSE e.id

\* visitorExpr of listUsers / countUsers: COALESCE(user_hash, session_hash, id)
visitorExpr(e) ==
  IF e.userHash # NoHash THEN e.userHash
  ELSE IF e.sessionHash # NoHash THEN e.sessionHash
  ELSE e.id

\* COUNT(DISTINCT key) over the events of (project, date) in each read path
RollupVisitorCount(table, p, d) ==
  Cardinality({RollupVisitorHash(e) : e \in EventsOfDay(table, p, d)})
RealtimeVisitorCount(table, p, d) ==
  Cardinality({RealtimeVisitorExpr(e) : e \in EventsOfDay(table, p, d)})
FunnelVisitorCount(table, p, d) ==
  Cardinality({FunnelVisitorExpr(e) : e \in EventsOfDay(table, p, d)})
EventSummaryVisitorCount(table, p, d) ==
  Cardinality({EventSummaryVisitorExpr(e) : e \in EventsOfDay(table, p, d)})
countUsers(table, p, d) ==
  Cardinality({visitorExpr(e) : e \in EventsOfDay(table, p, d)})

IdentityBatches ==
  {<<PayView>>, <<PayUserS2>>, <<PayViewUser, PayUserS2>>, <<PayAnonA, PayAnonB>>,
   <<PayBad>>}

NextVisitors ==
  \/ \E b \in IdentityBatches : IngestStart("c1", "p1", b)
  \/ IngestInvalidTimestamp("c1")
  \/ IngestInsert("c1")
  \/ IngestInsertFails("c1")
  \/ IngestReturn("c1")
  \/ \E f \in FlushIds : FlushCallback(f)
  \/ \E f \in FlushIds : TrxAdvance(f, 1)
  \/ \E f \in FlushIds : TrxFails(f)
  \/ \E f \in FlushIds : FlushContinue(f)

SpecVisitors == Init /\ [][NextVisitors]_vars

\* one ingestEvents call has returned with accepted rows, the flush it caused
\* has ended without a failure, and nothing is pending or running
FlushedAfterOneIngest ==
  /\ ingestCount = 1
  /\ lastResult.kind = "ok" /\ lastResult.accepted > 0
  /\ \A c \in CallSlots : calls[c].pc = "idle"
  /\ pendingAggregations = <<>> /\ immediates = 0
  /\ \A f \in FlushIds : flushes[f].pc = "idle"
  /\ lastFlush # NoFlush
  /\ \A j \in DOMAIN lastFlush.log : ~lastFlush.log[j].failed

\* C12: after an ingestion and a flush without failure, the Overview row of
\* every (project, date) that has events holds visits = the number of stored
\* events of that day and uniqueVisitors = the number of distinct visitor keys
\* (user hash, else session hash, else event id) among them.
C12_OverviewMatchesEvents ==
  FlushedAfterOneIngest =>
    \A p \in Projects, d \in Dates :
      EventsOfDay(events, p, d) # {} =>
        /\ Cardinality(RowsOf(rollups, "overview", p, d)) = 1
        /\ \A r \in RowsOf(rollups, "overview", p, d) :
             /\ r.visits = Cardinality(EventsOfDay(events, p, d))
             /\ r.uniqueVisitors = countUsers(events, p, d)

\* C13: the COMMIT of a rebuild of (project, date) leaves Page rows whose visits
\* sum to the visits of the Overview row, at most one Page row per (path, page
\* url) and at most one Overview row.
C13_PageVisitsSumToOverview ==
  [][\A p \in Projects, d \in Dates :
       CommitStep(p, d) =>
         LET overview == RowsOf(rollups', "overview", p, d)
             page == RowsOf(rollups', "page", p, d)
         IN /\ Cardinality(overview) <= 1
            /\ \A r1, r2 \in page :
                 (r1.pagePath = r2.pagePath /\ r1.pageUrl = r2.pageUrl) => r1 = r2
            /\ SumVisits(page) = SumVisits(overview)]_vars

\* C14: the rows an insert builds from payloads that share a non-empty user id
\* get one visitor key, whatever their session ids, in the rollup rebuild and
\* in every read path.
C14_UserIdWins ==
  [][\A c \in CallSlots :
       InsertStep(c) =>
         \A i, j \in DOMAIN calls[c].payloads :
           (calls[c].payloads[i].user_id # NoValue
            /\ calls[c].payloads[i].user_id = calls[c].payloads[j].user_id) =>
              LET ri == calls'[c].rows[i]
                  rj == calls'[c].rows[j]
              IN /\ RollupVisitorHash(ri) = RollupVisitorHash(rj)
                 /\ RealtimeVisitorExpr(ri) = RealtimeVisitorExpr(rj)
                 /\ FunnelVisitorExpr(ri) = FunnelVisitorExpr(rj)
                 /\ EventSummaryVisitorExpr(ri) = EventSummaryVisitorExpr(rj)
                 /\ visitorExpr(ri) = visitorExpr(rj)]_vars

\* C15: rollup rebuild, realtime, funnel statistics, event summary and users
\* listing count the same number of distinct visitors over the stored events of
\* a (project, date).
C15_OneVisitorRule ==
  \A p \in Projects, d \in Dates :
    /\ RollupVisitorCount(events, p, d) = RealtimeVisitorCount(events, p, d)
    /\ RollupVisitorCount(events, p, d) = FunnelVisitorCount(events, p, d)
    /\ RollupVisitorCount(events, p, d) = EventSummaryVisitorCount(events, p, d)
    /\ RollupVisitorCount(events, p, d) = countUsers(events, p, d)

\* C16: a stored event whose payload carried neither user id nor session id has
\* its own event id as visitor key in the rollup rebuild and the users listing.
C16_AnonymousIsSingleton ==
  [][\A c \in CallSlots :
       InsertStep(c) =>
         \A i \in DOMAIN calls[c].payloads :
           (calls[c].payloads[i].user_id = NoValue
            /\ calls[c].payloads[i].session_id = NoValue) =>
              \A e \in RowsWithKey(events', calls[c].projectId, CallPayloadKey(c, i)) :
                /\ RollupVisitorHash(e) = e.id
                /\ visitorExpr(e) = e.id]_vars

----------------------------------------------------------------------------
(* Ingestion of events that carry funnel attribution *)

PayStep == [BasePayload EXCEPT !.funnel_id = "f1", !.step = "s1"]
\* s2 is a step of funnel f2 only
PayUnknownStep == [BasePayload EXCEPT !.funnel_id = "f1", !.step = "s2"]
PayUnknownFunnel == [BasePayload EXCEPT !.funnel_id = "f9", !.step = "s1"]
\* f2 is a funnel of project p2
PayOtherFunnel == [BasePayload EXCEPT !.funnel_id = "f2", !.step = "s2"]
PayFunnelOnly == [BasePayload EXCEPT !.funnel_id = "f1"]
PayStepOnly == [BasePayload EXCEPT !.step = "s1"]

FunnelBatches ==
  {<<PayStep>>, <<PayUnknownStep>>, <<PayUnknownFunnel>>, <<PayOtherFunnel>>,
   <<PayFunnelOnly>>, <<PayStepOnly>>, <<PayStep, PayUnknownStep>>,
   <<PayOtherFunnel, PayStep>>, <<PayUnknownFunnel, PayOtherFunnel>>, <<PayStep, PayBad>>}

NextFunnelIngest ==
  \/ \E p \in Projects, b \in FunnelBatches : IngestStart("c1", p, b)
  \/ IngestInvalidTimestamp("c1")
  \/ IngestInsert("c1")
  \/ IngestInsertFails("c1")
  \/ IngestReturn("c1")

SpecFunnelIngest == Init /\ [][NextFunnelIngest]_vars

\* the funnel exists and belongs to the project
FunnelOfProject(projectId, funnelId) ==
  \E f \in funnelTables.funnels : f.id = funnelId /\ f.projectId = projectId

\* the exact (funnel, step) pair exists
StepOfFunnel(funnelId, step) ==
  \E t \in funnelTables.steps : t.funnelId = funnelId /\ t.stepKey = step

\* C21: a batch whose timestamps parse is inserted whatever funnel ids and steps
\* its events name; every event of the batch is then stored under its key, and
\* the row built for it holds the funnel id only if the funnel belongs to the
\* project, and the step key only if in addition the exact (funnel, step) pair
\* exists; everything else of the attribution is null.
C21_InvalidAttributionDropped ==
  /\ [](\A c \in CallSlots :
          (calls[c].pc = "validated" /\ ~HasInvalidTimestamp(calls[c].payloads))
            => ENABLED IngestInsert(c))
  /\ [][\A c \in CallSlots :
          InsertStep(c) =>
            \A i \in DOMAIN calls[c].payloads :
              LET p == calls[c].projectId
                  pay == calls[c].payloads[i]
                  row == calls'[c].rows[i]
                  known == pay.funnel_id # NoValue /\ FunnelOfProject(p, pay.funnel_id)
                  knownStep == known /\ pay.step # NoValue
                               /\ StepOfFunnel(pay.funnel_id, pay.step)
              IN /\ RowsWithKey(events', p, CallPayloadKey(c, i)) # {}
                 /\ row.funnelId = (IF known THEN pay.funnel_id ELSE NoValue)
                 /\ row.stepKey = (IF knownStep THEN pay.step ELSE NoValue)
                 /\ \A id \in calls'[c].inserted :
                      id[2] = row.idempotencyKey =>
                        \E e \in events' :
                          /\ e.id = id
                          /\ e.funnelId = row.funnelId /\ e.stepKey = row.stepKey]_vars

\* project p1 stored an event that named a funnel of another project and an
\* event that named a known funnel with a step the funnel does not have
C21_Witness ==
  /\ lastResult.kind = "ok" /\ lastResult.projectId = "p1"
  /\ \E e \in RowsWithKey(events, "p1", IdempotencyKey(PayOtherFunnel)) :
       e.funnelId = NoValue /\ e.stepKey = NoValue
  /\ \E e \in RowsWithKey(events, "p1", IdempotencyKey(PayUnknownStep)) :
       e.funnelId = "f1" /\ e.stepKey = NoValue
  /\ \E e \in RowsWithKey(events, "p1", IdempotencyKey(PayStep)) :
       e.funnelId = "f1" /\ e.stepKey = "s1"

----------------------------------------------------------------------------
(* Bulk rebuild: rebuildProjectAggregates *)

\* a <= b for two instants
InstantLeq(a, b) == a.date < b.date \/ (a.date = b.date /\ a.tod <= b.tod)

\* project_id = $1 [AND occurred_at >= $2] [AND occurred_at <= $3]: a clause is
\* there only for a bound that was passed
InBulkRange(e, projectId, from, to) ==
  /\ e.projectId = projectId
  /\ from # Absent => InstantLeq(ParseDate(from), e.occurredAt)
  /\ to # Absent => InstantLeq(e.occurredAt, ParseDate(to))

\* a plausible slip: the range clauses are left out of the query
DatesOfProject(table, projectId, from, to) ==
  SortAsc({e.occurredAt.date : e \in {x \in table : x.projectId = projectId}})

\* SELECT DISTINCT DATE(occurred_at) ... ORDER BY event_date ASC
DiscoveredDates(table, projectId, from, to) ==
  SortAsc({e.occurredAt.date : e \in {x \in table : InBulkRange(x, projectId, from, to)}})

\* row.event_date.toISOString() through normalizeDate
NormalizedRow(eventDate) ==
  normalizeDate(ToISOString([date |-> eventDate, tod |-> 0]))

\* the dates the loop passes to recomputeDailyAggregates: rows whose value
\* normalizes to nothing are skipped
RebuildDates(dates) ==
  SelectSeq([i \in DOMAIN dates |-> NormalizedRow(dates[i])], LAMBDA d : d # 0)

\* a plausible slip: an empty result is reported as an error
EmptyResultRejects == "rejected"

\* if (!dates.length) return
EmptyResultEnds == "returned"

BulkRanges ==
  {<<Absent, Absent>>,
   <<[date |-> 20250101, tod |-> 0, fmt |-> "ms"], [date |-> 20250101, tod |-> 10, fmt |-> "ms"]>>,
   <<[date |-> 20250102, tod |-> 0, fmt |-> "ms"], Absent>>,
   <<Absent, [date |-> 20241231, tod |-> 0, fmt |-> "ms"]>>}

\* every range for the project that ingests, the whole history for the other
BulkInputs == ({"p1"} \X BulkRanges) \cup {<<"p2", <<Absent, Absent>>>>}

\* rebuildProjectAggregates(projectId, from, to) up to the await of the query
BulkStart(projectId, from, to) ==
  /\ bulk.pc \in {"idle", "returned", "rejected"}
  /\ bulk' = [IdleBulk EXCEPT !.pc = "querying", !.projectId = projectId,
                             !.from = from, !.to = to]
  /\ UNCHANGED <<besideBulk, ingestVars, schedulerVars, scheduleCount, flushVars, cache, readVars>>

\* the query runs; the call returns on an empty result, else begins the rebuild of
\* the first date, or goes straight to the invalidation when no row normalizes
BulkQuery ==
  /\ bulk.pc = "querying"
  /\ LET dates == DiscoveredDates(events, bulk.projectId, bulk.from, bulk.to)
         rest == RebuildDates(dates)
         found == [bulk EXCEPT !.seen = events, !.dates = dates, !.rest = rest]
     IN IF Len(dates) = 0
        THEN /\ bulk' = [found EXCEPT !.pc = EmptyResultEnds]
             /\ UNCHANGED <<cache, settled>>
        ELSE IF rest = <<>>
        THEN /\ bulk' = [found EXCEPT !.pc = "returned", !.invalidated = @ + 1]
             /\ cache' = invalidateProjectCache(cache, bulk.projectId)
             /\ settled' = [settled EXCEPT ![bulk.projectId] = TRUE]
        ELSE /\ bulk' = [found EXCEPT !.pc = "busy",
                                      !.trx = BeginTrx(bulk.projectId, rest[1]),
                                      !.attempted = <<rest[1]>>]
             /\ UNCHANGED <<cache, settled>>
  /\ UNCHANGED <<besideBulk, ingestVars, schedulerVars, scheduleCount, flushes, lastFlush, rollups,
                 readVars>>

\* the query fails: the promise of sqlClient.unsafe rejects and so does the call
BulkQueryFails ==
  /\ bulk.pc = "querying"
  /\ bulk' = [bulk EXCEPT !.pc = "rejected", !.error = "query failed"]
  /\ UNCHANGED <<besideBulk, ingestVars, schedulerVars, scheduleCount, flushVars, cache, readVars>>

\* the database runs the next n round trips of the open transaction of the call
BulkTrxAdvance(n) ==
  /\ bulk.pc = "busy"
  /\ bulk.trx.state = "open"
  /\ LET trx == bulk.trx
         ran == RunStatements(trx, n, events)
         commits == trx.stmt + n > StatementCount
     IN IF commits
        THEN /\ bulk' = [bulk EXCEPT !.trx = [ran EXCEPT !.state = "committed"]]
             /\ rollups' = ApplyWorkspace(rollups, ran)
             /\ settled' = [settled EXCEPT ![trx.projectId] = FALSE]
        ELSE /\ bulk' = [bulk EXCEPT !.trx = ran]
             /\ rollups' = VisibleBeforeCommit(rollups, ran)
             /\ UNCHANGED settled
  /\ UNCHANGED <<besideBulk, ingestVars, schedulerVars, scheduleCount, flushes, lastFlush, cache,
                 readVars>>

\* the next statement (or COMMIT) of the call's transaction fails
BulkTrxFails ==
  /\ bulk.pc = "busy"
  /\ bulk.trx.state = "open"
  /\ bulk' = [bulk EXCEPT !.trx.state = "failed"]
  /\ rollups' = VisibleBeforeCommit(rollups, NoTrx)
  /\ UNCHANGED <<besideBulk, ingestVars, schedulerVars, scheduleCount, flushes, lastFlush, settled,
                 cache, readVars>>

\* the call resumes after `await recomputeDailyAggregates` (lines 92-99): the next
\* row, or invalidateProjectCache and return; a rejection leaves the function
BulkContinue ==
  /\ bulk.pc = "busy"
  /\ bulk.trx.state \in {"committed", "failed"}
  /\ IF bulk.trx.state = "failed"
     THEN /\ bulk' = [bulk EXCEPT !.pc = "rejected", !.error = "rebuild failed"]
          /\ UNCHANGED <<cache, settled>>
     ELSE LET done == [bulk EXCEPT !.rebuilt = Append(@, bulk.trx.date)]
          IN IF Len(bulk.rest) > 1
             THEN /\ bulk' = [done EXCEPT !.rest = Tail(bulk.rest),
                                          !.trx = BeginTrx(bulk.projectId, bulk.rest[2]),
                                          !.attempted = Append(@, bulk.rest[2])]
                  /\ UNCHANGED <<cache, settled>>
             ELSE /\ bulk' = [done EXCEPT !.pc = "returned", !.rest = <<>>,
                                          !.invalidated = @ + 1]
                  /\ cache' = invalidateProjectCache(cache, bulk.projectId)
                  /\ settled' = [settled EXCEPT ![bulk.projectId] = TRUE]
  /\ UNCHANGED <<besideBulk, ingestVars, schedulerVars, scheduleCount, flushes, lastFlush, rollups,
                 readVars>>

NextBulk ==
  \/ \E b \in PipelineBatches : IngestStart("c1", "p1", b)
  \/ IngestInvalidTimestamp("c1")
  \/ IngestInsert("c1")
  \/ IngestInsertFails("c1")
  \/ IngestReturn("c1")
  \/ \E f \in FlushIds : FlushCallback(f)
  \/ \E f \in FlushIds : TrxAdvance(f, StatementCount + 1)
  \/ \E f \in FlushIds : TrxFails(f)
  \/ \E f \in FlushIds : FlushContinue(f)
  \/ \E c \in BulkInputs : BulkStart(c[1], c[2][1], c[2][2])
  \/ BulkQuery
  \/ BulkQueryFails
  \/ BulkTrxAdvance(StatementCount + 1)
  \/ BulkTrxFails
  \/ BulkContinue

SpecBulk == Init /\ [][NextBulk]_vars

\* the calendar dates with at least one event of the call's project in the
\* call's range, among the events stored when the call's query ran
BulkExpected ==
  {d \in Dates :
     \E e \in bulk.seen :
       /\ e.projectId = bulk.projectId /\ e.occurredAt.date = d
       /\ bulk.from # Absent => InstantLeq(ParseDate(bulk.from), e.occurredAt)
       /\ bulk.to # Absent => InstantLeq(e.occurredAt, ParseDate(bulk.to))}

\* the query of the call has run
BulkQueried ==
  bulk.pc \in {"busy", "returned"} \/ (bulk.pc = "rejected" /\ bulk.error # "query failed")

\* C22 (as stated): every rebuildProjectAggregates call that found dates ends
\* with each of them rebuilt and one cache invalidation.
C22_RebuildsAllThenInvalidates ==
  (bulk.pc \in {"returned", "rejected"} /\ BulkQueried /\ BulkExpected # {}) =>
     /\ Elements(bulk.rebuilt) = BulkExpected
     /\ bulk.invalidated = 1

\* C22 (amended): a rebuildProjectAggregates call begins rebuilds only for the
\* dates that had an event of the project in the range when its query ran, in
\* ascending order and each at most once; it invalidates the project's cache at
\* most once and only after the last of these dates has committed; a call that
\* returns has rebuilt every one of them and invalidated exactly once, and only
\* a call that rejects has rebuilt fewer.
C22_RebuildsDiscoveredAscending ==
  /\ [](BulkQueried =>
          /\ IsPrefix(bulk.attempted, SortAsc(BulkExpected))
          /\ IsPrefix(bulk.rebuilt, bulk.attempted)
          /\ Len(bulk.attempted) <= Len(bulk.rebuilt) + 1
          /\ bulk.invalidated <= 1
          /\ bulk.invalidated = 1 => bulk.pc = "returned"
          /\ (bulk.pc = "returned" /\ BulkExpected # {}) =>
               /\ bulk.rebuilt = SortAsc(BulkExpected)
               /\ bulk.invalidated = 1)
  /\ [][/\ bulk'.trx.state = "committed" /\ bulk.trx.state = "open" =>
             /\ bulk.trx.date \in BulkExpected
             /\ bulk.trx.date = bulk.attempted[Len(bulk.attempted)]
             /\ \A name \in TableSet, d \in Dates :
                  d # bulk.trx.date =>
                    RowsOf(rollups', name, bulk.projectId, d)
                      = RowsOf(rollups, name, bulk.projectId, d)
        /\ bulk'.invalidated = bulk.invalidated + 1 =>
             /\ cache' = invalidateProjectCache(cache, bulk.projectId)
             /\ bulk'.rebuilt = SortAsc(BulkExpected)]_vars

\* a call found events of the project on two dates, rebuilt both in ascending
\* order, invalidated once and returned
C22_Witness ==
  /\ bulk.pc = "returned"
  /\ bulk.rebuilt = <<20250101, 20250102>>
  /\ bulk.invalidated = 1
  /\ \A name \in TableSet : RowsOf(rollups, name, bulk.projectId, 20250102) # {}

\* C23: when the query of a call succeeds and the range holds no event of the
\* project, the call returns normally at that step; no transaction is begun, no rollup row changes, and the
\* call attempts no rebuild.
C23_EmptyRangeIsNoOp ==
  [][(bulk.pc = "querying" /\ bulk'.pc # "querying" /\ bulk'.error # "query failed"
      /\ ~\E e \in events : InBulkRange(e, bulk.projectId, bulk.from, bulk.to))
       => /\ bulk'.pc = "returned"
          /\ bulk'.trx = NoTrx /\ bulk'.attempted = <<>>
          /\ rollups' = rollups]_vars

\* a call for a range before every event of a project that has events returned
\* without a rebuild, the rollup rows of the project still in place
C23_Witness ==
  /\ bulk.pc = "returned"
  /\ bulk.attempted = <<>> /\ bulk.invalidated = 0
  /\ bulk.to # Absent
  /\ \E e \in bulk.seen : e.projectId = bulk.projectId
  /\ RowsOf(rollups, "overview", bulk.projectId, 20250101) # {}

(***************************************************************************)
(* funnelService: normaliseSteps                                           *)
(***************************************************************************)
\* a step as a caller supplies it; order is <<>> when the caller left it out
StepKeys == {"a", "b", "c"}
StepNames == {"A", "B"}
\* supplied orders are non-negative integers (api/v1/funnels.ts stepSchema)
StepOrders == {<<>>, <<1>>, <<7>>}
MaxSteps == 3
StepInputs == [key : StepKeys, name : StepNames, order : StepOrders]
StepLists == SeqsUpTo(StepInputs, MaxSteps)

\* order: step.order ?? index
EffectiveOrder(steps, i) ==
  IF steps[i].order = <<>> THEN i - 1 ELSE steps[i].order[1]

\* a plausible slip: a sort that puts the later of two equal orders first
RankTiesReversed(steps, i) ==
  1 + Cardinality({j \in DOMAIN steps :
                     \/ EffectiveOrder(steps, j) < EffectiveOrder(steps, i)
                     \/ EffectiveOrder(steps, j) = EffectiveOrder(steps, i) /\ j > i})

\* the place of step i after .sort((a, b) => a.order - b.order), which keeps
\* the caller's relative order of steps whose orders are equal
SortRank(steps, i) ==
  1 + Cardinality({j \in DOMAIN steps :
                     \/ EffectiveOrder(steps, j) < EffectiveOrder(steps, i)
                     \/ EffectiveOrder(steps, j) = EffectiveOrder(steps, i) /\ j < i})

\* the sorted steps with order: index reassigned
OrderedSteps(steps) ==
  [k \in DOMAIN steps |->
     LET i == CHOOSE x \in DOMAIN steps : SortRank(steps, x) = k
     IN  [key |-> steps[i].key, name |-> steps[i].name, order |-> k - 1]]

\* a plausible slip: only neighbouring steps are compared
HasAdjacentDuplicate(ordered) ==
  \E k \in DOMAIN ordered : k + 1 \in DOMAIN ordered /\ ordered[k].key = ordered[k + 1].key

\* the loop over seen keys: throws at the first key already seen
HasDuplicateKey(ordered) ==
  \E k, l \in DOMAIN ordered : k < l /\ ordered[k].key = ordered[l].key

normaliseSteps(steps) ==
  LET ordered == OrderedSteps(steps)
  IN  IF HasDuplicateKey(ordered)
        THEN [kind |-> "error", error |-> "Duplicate step key detected", steps |-> <<>>]
        ELSE [kind |-> "ok", error |-> NoValue, steps |-> ordered]

NormaliseSteps(steps) ==
  /\ funnelCall' = [op |-> "normaliseSteps", args |-> steps, pc |-> "done",
                    result |-> normaliseSteps(steps)]
  /\ UNCHANGED <<pipelineVars, besideFunnel, funnelTables, funnelWrite>>

InitSteps == Init
NextSteps == funnelCall.op = "idle" /\ \E steps \in StepLists : NormaliseSteps(steps)
SpecSteps == InitSteps /\ [][NextSteps]_vars

\* the caller's place of the step that the normalised list holds at place k
Injections(n) == {f \in [1..n -> 1..n] : \A a, b \in 1..n : a # b => f[a] # f[b]}

\* C27: a list of steps with distinct keys is normalised to the same steps
\* (keys and names) with orders 0..N-1, ascending by supplied order, where a
\* step without an order counts with its zero-based position and steps of equal
\* order keep the caller's relative order.
C27_StepsGetDenseStableOrder ==
  (funnelCall.op = "normaliseSteps"
   /\ \A i, j \in DOMAIN funnelCall.args : i # j => funnelCall.args[i].key # funnelCall.args[j].key)
    => LET in == funnelCall.args
           out == funnelCall.result.steps
           N == Len(in)
       IN  /\ funnelCall.result.kind = "ok"
           /\ Len(out) = N
           /\ \A k \in 1..N : out[k].order = k - 1
           /\ \E f \in Injections(N) :
                /\ \A k \in 1..N : out[k].key = in[f[k]].key /\ out[k].name = in[f[k]].name
                /\ \A k, l \in 1..N : k < l =>
                     \/ EffectiveOrder(in, f[k]) < EffectiveOrder(in, f[l])
                     \/ EffectiveOrder(in, f[k]) = EffectiveOrder(in, f[l]) /\ f[k] < f[l]

\* three steps with distinct keys were normalised: the second, without an
\* order, and the third, with order 1, tie and keep their places before the
\* first, whose order is 7
C27_Witness ==
  /\ funnelCall.op = "normaliseSteps"
  /\ Len(funnelCall.args) = 3
  /\ funnelCall.args[1].order = <<7>> /\ funnelCall.args[2].order = <<>>
  /\ funnelCall.args[3].order = <<1>>
  /\ funnelCall.result.kind = "ok"
  /\ funnelCall.result.steps[1].key = funnelCall.args[2].key
  /\ funnelCall.result.steps[2].key = funnelCall.args[3].key
  /\ funnelCall.result.steps[3] =
       [key |-> funnelCall.args[1].key, name |-> funnelCall.args[1].name, order |-> 2]

\* C28: a list in which two steps share a key is rejected with the duplicate
\* step key error, wherever the two steps stand and whatever their orders, and
\* a list of steps with distinct keys is returned normally.
C28_DuplicateKeyRejected ==
  funnelCall.op = "normaliseSteps"
    => IF \E i, j \in DOMAIN funnelCall.args :
            i # j /\ funnelCall.args[i].key = funnelCall.args[j].key
         THEN /\ funnelCall.result.kind = "error"
              /\ funnelCall.result.error = "Duplicate step key detected"
              /\ funnelCall.result.steps = <<>>
         ELSE /\ funnelCall.result.kind = "ok"
              /\ Len(funnelCall.result.steps) = Len(funnelCall.args)

\* the first and the last of three steps share a key and the sort leaves a
\* step of another key between them
C28_Witness ==
  /\ funnelCall.op = "normaliseSteps"
  /\ Len(funnelCall.args) = 3
  /\ funnelCall.args[1].key = funnelCall.args[3].key
  /\ funnelCall.args[2].key # funnelCall.args[1].key
  /\ \A i \in 1..3 : funnelCall.args[i].order = <<>>
  /\ funnelCall.result.kind = "error"


(***************************************************************************)
(* funnelService: the numbers of getFunnelStats                            *)
(*                                                                         *)
(* conversions / visits and the product with 100 are IEEE-754 binary64     *)
(* operations.  A number is kept as [digits, exp]: its digits to the base  *)
(* Base, most significant first, and the exponent of the last digit, so    *)
(* that the value is NatOfDigits(digits) * Base^exp.  A double has at most *)
(* MantissaBits binary digits from its first 1 to its last.                *)
(***************************************************************************)
\* binary digits of a binary64 significand
MantissaBits == 53
\* binary digits of one digit of the representation
DigitBits == 13
Base == 2 ^ DigitBits

RECURSIVE DigitsOfNat(_)
DigitsOfNat(n) == IF n = 0 THEN <<>> ELSE Append(DigitsOfNat(n \div Base), n % Base)

RECURSIVE NatOfDigits(_)
NatOfDigits(digits) ==
  IF digits = <<>> THEN 0
  ELSE Base * NatOfDigits(SubSeq(digits, 1, Len(digits) - 1)) + digits[Len(digits)]

\* the number of binary digits of a digit d >= 1
BitLength(d) == CHOOSE k \in 1..DigitBits : 2 ^ (k - 1) <= d /\ d < 2 ^ k

\* digits + amount * Base^0, for a small amount
RECURSIVE AddToLast(_, _)
AddToLast(digits, amount) ==
  IF digits = <<>> THEN DigitsOfNat(amount)
  ELSE LET n == Len(digits)
           sum == digits[n] + amount
       IN  AddToLast(SubSeq(digits, 1, n - 1), sum \div Base) \o <<sum % Base>>

\* digits * factor + carry, for a small factor
RECURSIVE TimesSmall(_, _, _)
TimesSmall(digits, factor, carry) ==
  IF digits = <<>> THEN DigitsOfNat(carry)
  ELSE LET n == Len(digits)
           product == digits[n] * factor + carry
       IN  TimesSmall(SubSeq(digits, 1, n - 1), factor, product \div Base)
             \o <<product % Base>>

\* round to nearest, ties to even: the exact digits (first digit not 0) are cut
\* after MantissaBits binary digits; sticky says that the exact value has
\* non-zero digits beyond the given ones
RoundToDouble(digits, exp, sticky) ==
  LET len == Len(digits)
      total == IF digits = <<>> THEN 0 ELSE BitLength(digits[1]) + DigitBits * (len - 1)
      drop == total - MantissaBits
      dropDigits == drop \div DigitBits
      dropBits == drop % DigitBits
      j == len - dropDigits
      unit == 2 ^ dropBits
      low == digits[j] % unit
      laterNonZero == sticky \/ \E i \in (j + 1)..len : digits[i] # 0
      \* the dropped part against half of the last kept binary digit
      half == IF dropBits = 0 THEN digits[j + 1] >= Base \div 2
              ELSE low >= unit \div 2
      below == IF dropBits = 0
                 THEN digits[j + 1] % (Base \div 2) # 0
                      \/ sticky \/ \E i \in (j + 2)..len : digits[i] # 0
                 ELSE low % (unit \div 2) # 0 \/ laterNonZero
      odd == (digits[j] \div unit) % 2 = 1
      kept == [i \in 1..j |-> IF i = j THEN digits[j] - low ELSE digits[i]]
      up == half /\ (below \/ odd)
  IN  IF drop <= 0 THEN [digits |-> digits, exp |-> exp]
      ELSE [digits |-> IF up THEN AddToLast(kept, unit) ELSE kept, exp |-> exp + dropDigits]

\* long division of r / v after n digits behind the point: digits are produced
\* until the quotient is exact or holds more binary digits than a significand
RECURSIVE DivDigits(_, _, _, _)
DivDigits(r, v, sig, n) ==
  IF r = 0 \/ DigitBits * (Len(sig) - 1) > MantissaBits
    THEN [digits |-> sig, exp |-> 0 - n, sticky |-> r # 0]
    ELSE LET d == (r * Base) \div v
         IN  DivDigits((r * Base) % v, v,
                       IF sig = <<>> /\ d = 0 THEN sig ELSE Append(sig, d), n + 1)

\* the double a / b of two counts, b > 0
DivideDouble(a, b) ==
  LET q == DivDigits(a % b, b, DigitsOfNat(a \div b), 0)
  IN  RoundToDouble(q.digits, q.exp, q.sticky)

\* the double x * 100
TimesHundredDouble(x) == RoundToDouble(TimesSmall(x.digits, 100, 0), x.exp, FALSE)

\* Number(x.toFixed(2)) in hundredths: toFixed takes the integer n for which
\* n / 100 - x is closest to zero, the larger n when there are two
ToFixed2(x) ==
  LET scaled == TimesSmall(x.digits, 100, 0)
      k == 0 - x.exp
      len == Len(scaled)
  IN  IF k <= 0 THEN NatOfDigits(scaled \o [i \in 1..(0 - k) |-> 0])
      ELSE NatOfDigits(SubSeq(scaled, 1, len - k))
             + (IF k <= len /\ scaled[len - k + 1] >= Base \div 2 THEN 1 ELSE 0)

\* visits > 0 ? Number(((conversions / visits) * 100).toFixed(2)) : 0, in hundredths
conversionRate(conversions, visits) ==
  IF visits > 0 THEN ToFixed2(TimesHundredDouble(DivideDouble(conversions, visits))) ELSE 0

(***************************************************************************)
(* funnelService: getFunnel, getFunnelStats, updateFunnel, deleteFunnel    *)
(***************************************************************************)
\* a plausible slip: the funnel is looked up by its id alone
FindFunnelById(tables, projectId, funnelId) ==
  {f \in tables.funnels : f.id = funnelId}

\* WHERE id = funnelId AND project_id = projectId LIMIT 1 (id is the primary key)
FindFunnel(tables, projectId, funnelId) ==
  {f \in tables.funnels : f.id = funnelId /\ f.projectId = projectId}

\* WHERE funnel_id = funnelId ORDER BY step_order ASC, mapped to the steps of a
\* FunnelRecord
StepsOfFunnel(tables, funnelId) ==
  LET rows == {t \in tables.steps : t.funnelId = funnelId}
      sorted == CHOOSE seq \in [1..Cardinality(rows) -> rows] :
                  \A i, j \in DOMAIN seq : i < j => seq[i].stepOrder < seq[j].stepOrder
  IN  [i \in DOMAIN sorted |->
         [key |-> sorted[i].stepKey, name |-> sorted[i].name, order |-> sorted[i].stepOrder]]

FunnelRecord(row, steps) ==
  [id |-> row.id, projectId |-> row.projectId, name |-> row.name,
   description |-> row.description, isActive |-> row.isActive,
   updatedAt |-> row.updatedAt, steps |-> steps]

\* the events the statistics query reads: project, funnel and the bounds passed
StatsEvents(table, projectId, funnelId, params) ==
  {e \in table : InBulkRange(e, projectId, params[1], params[2]) /\ e.funnelId = funnelId}

\* SELECT step_key, COUNT(DISTINCT COALESCE(session_hash, user_hash, id)) ...
\* GROUP BY step_key
StatsRows(table, projectId, funnelId, params) ==
  LET read == StatsEvents(table, projectId, funnelId, params)
  IN  {[stepKey |-> k,
        visitors |-> Cardinality({FunnelVisitorExpr(e) : e \in {x \in read : x.stepKey = k}})] :
         k \in {e.stepKey : e \in read}}

\* visitorsByStep.get(key) ?? 0, the map holding the rows whose step key is set
VisitorsOf(rows, key) ==
  IF \E r \in rows : r.stepKey # NoValue /\ r.stepKey = key
    THEN (CHOOSE r \in rows : r.stepKey = key).visitors
    ELSE 0

\* a plausible slip: the last step converts nobody
NobodyAfterLast(steps, rows, i) ==
  IF i = Len(steps) THEN 0 ELSE VisitorsOf(rows, steps[i + 1].key)

nextVisitors(steps, rows, i) ==
  IF i = Len(steps) THEN VisitorsOf(rows, steps[i].key)
  ELSE VisitorsOf(rows, steps[i + 1].key)

\* funnel.steps.map((step, index) => ...); conversionRate is in hundredths
stepStats(steps, rows) ==
  [i \in DOMAIN steps |->
     LET visits == VisitorsOf(rows, steps[i].key)
         conversions == nextVisitors(steps, rows, i)
     IN  [stepKey |-> steps[i].key, name |-> steps[i].name,
          visits |-> visits, conversions |-> conversions,
          dropOff |-> IF visits - conversions > 0 THEN visits - conversions ELSE 0,
          conversionRate |-> conversionRate(conversions, visits),
          order |-> steps[i].order]]

FunnelStatsOf(funnelId, steps, rows) ==
  [kind |-> "stats", funnelId |-> funnelId,
   totalVisitors |-> VisitorsOf(rows, steps[1].key),
   steps |-> stepStats(steps, rows)]

\* getFunnel or getFunnelStats is called
FunnelReadStart(op, projectId, funnelId, params) ==
  /\ funnelCall.pc = "done"
  /\ funnelCall' = [op |-> op, args |-> <<projectId, funnelId, params>>, pc |-> "funnel",
                    funnel |-> <<>>, result |-> [kind |-> "none"]]
  /\ UNCHANGED <<pipelineVars, besideFunnel, funnelTables, funnelWrite>>

\* getFunnel: the funnel row is selected
FunnelSelect ==
  /\ funnelCall.pc = "funnel"
  /\ LET found == FindFunnel(funnelTables, funnelCall.args[1], funnelCall.args[2])
     IN  funnelCall' =
           IF found = {}
             THEN [funnelCall EXCEPT !.pc = "done", !.result = [kind |-> "null"]]
             ELSE [funnelCall EXCEPT !.pc = "steps", !.funnel = <<CHOOSE f \in found : TRUE>>]
  /\ UNCHANGED <<pipelineVars, besideFunnel, funnelTables, funnelWrite>>

\* getFunnel: the steps are selected and the record is returned; getFunnelStats
\* goes on with it
FunnelSelectSteps ==
  /\ funnelCall.pc = "steps"
  /\ LET record == FunnelRecord(funnelCall.funnel[1],
                                StepsOfFunnel(funnelTables, funnelCall.args[2]))
     IN  funnelCall' =
           IF funnelCall.op = "getFunnel"
             THEN [funnelCall EXCEPT !.pc = "done", !.funnel = <<record>>,
                                     !.result = [kind |-> "funnel", funnel |-> record]]
           ELSE IF record.steps = <<>>
             THEN [funnelCall EXCEPT !.pc = "done", !.funnel = <<record>>,
                                     !.result = [kind |-> "stats", funnelId |-> funnelCall.args[2],
                                                 totalVisitors |-> 0, steps |-> <<>>]]
           ELSE [funnelCall EXCEPT !.pc = "counting", !.funnel = <<record>>]
  /\ UNCHANGED <<pipelineVars, besideFunnel, funnelTables, funnelWrite>>

\* getFunnelStats: the statistics query answers and the result is built
FunnelCount ==
  /\ funnelCall.pc = "counting"
  /\ LET rows == StatsRows(events, funnelCall.args[1], funnelCall.args[2], funnelCall.args[3])
     IN  funnelCall' =
           [funnelCall EXCEPT !.pc = "done",
              !.result = FunnelStatsOf(funnelCall.args[2], funnelCall.funnel[1].steps, rows)]
  /\ UNCHANGED <<pipelineVars, besideFunnel, funnelTables, funnelWrite>>

\* a query of the read rejects
FunnelQueryFails ==
  /\ funnelCall.pc \in {"funnel", "steps", "counting"}
  /\ funnelCall' = [funnelCall EXCEPT !.pc = "done", !.result = [kind |-> "rejected"]]
  /\ UNCHANGED <<pipelineVars, besideFunnel, funnelTables, funnelWrite>>

\* a plausible slip: the statements run on the connection itself, so what
\* they wrote before the throw stays
TransactionKeepsWork(before, work, threw) == work

\* db.transaction(async tx => ...): the tables after the callback has ended;
\* work is what its statements wrote, threw says that it ended by throwing
transaction(before, work, threw) == IF threw THEN before ELSE work

\* the rows inserted into project_funnel_steps for normalised steps
StepRows(funnelId, ordered) ==
  {[funnelId |-> funnelId, stepKey |-> ordered[i].key, name |-> ordered[i].name,
    stepOrder |-> ordered[i].order] : i \in DOMAIN ordered}

\* a field of the input, or the fallback when the caller left it out (??)
OrElse(field, fallback) == IF field # <<>> THEN field[1] ELSE fallback

\* createFunnel(projectId, input) at time now, the store generating id.  The
\* fields of input are <<>> when the caller left them out.
CreateFunnel(projectId, input, id, now) ==
  LET steps == OrElse(input.steps, <<>>)
      ordered == normaliseSteps(steps)
      funnel == [id |-> id, projectId |-> projectId, name |-> input.name[1],
                 description |-> OrElse(input.description, NoValue),
                 isActive |-> OrElse(input.isActive, TRUE), updatedAt |-> now]
      afterFunnel == [funnelTables EXCEPT !.funnels = @ \cup {funnel}]
      afterSteps == [afterFunnel EXCEPT !.steps = @ \cup StepRows(id, ordered.steps)]
      threw == ordered.kind = "error"
      call == [op |-> "createFunnel", args |-> <<projectId, id, input>>, pc |-> "done",
               result |-> [kind |-> "none"]]
  IN  /\ id \notin {f.id : f \in funnelTables.funnels}
      /\ IF Len(steps) = 0
           THEN /\ funnelWrite' = [call EXCEPT !.result =
                                     [kind |-> "rejected",
                                      error |-> "A funnel requires at least one step"]]
                /\ UNCHANGED funnelTables
         ELSE /\ funnelTables' =
                   transaction(funnelTables, IF threw THEN afterFunnel ELSE afterSteps, threw)
              /\ funnelWrite' =
                   [call EXCEPT !.result =
                      IF threw THEN [kind |-> "rejected", error |-> ordered.error]
                      ELSE [kind |-> "funnel",
                            funnel |-> FunnelRecord(funnel, StepsOfFunnel(afterSteps, id))]]
      /\ UNCHANGED <<pipelineVars, besideFunnel, funnelCall>>

\* updateFunnel(projectId, funnelId, input) at time now, one transaction: the
\* funnel row is updated when the input names a field of it, the steps are
\* deleted and inserted anew when the input carries steps.
UpdateFunnel(projectId, funnelId, input, now) ==
  LET found == FindFunnel(funnelTables, projectId, funnelId)
      existing == CHOOSE f \in found : TRUE
      touched == input.name # <<>> \/ input.description # <<>> \/ input.isActive # <<>>
      named == IF touched
                 THEN [existing EXCEPT !.name = OrElse(input.name, @),
                                       !.description = OrElse(input.description, @),
                                       !.isActive = OrElse(input.isActive, @),
                                       !.updatedAt = now]
               ELSE existing
      ordered == normaliseSteps(input.steps[1])
      threw == input.steps # <<>> /\ ordered.kind = "error"
      afterUpdate == [funnelTables EXCEPT !.funnels = (@ \ found) \cup {named}]
      afterDelete == [afterUpdate EXCEPT !.steps = {t \in @ : t.funnelId # funnelId}]
      afterInsert == [afterDelete EXCEPT !.steps = @ \cup StepRows(funnelId, ordered.steps)]
      written == IF input.steps = <<>> THEN afterUpdate
                 ELSE IF threw THEN afterDelete ELSE afterInsert
      call == [op |-> "updateFunnel", args |-> <<projectId, funnelId, input>>, pc |-> "done",
               result |-> [kind |-> "none"]]
  IN  /\ IF found = {}
           THEN /\ funnelWrite' = [call EXCEPT !.result = [kind |-> "null"]]
                /\ UNCHANGED funnelTables
         ELSE /\ funnelTables' = transaction(funnelTables, written, threw)
              /\ funnelWrite' =
                   [call EXCEPT !.result =
                      IF threw THEN [kind |-> "rejected", error |-> ordered.error]
                      ELSE [kind |-> "funnel",
                            funnel |-> FunnelRecord(named, StepsOfFunnel(written, funnelId))]]
      /\ UNCHANGED <<pipelineVars, besideFunnel, funnelCall>>

\* deleteFunnel: DELETE ... WHERE id = funnelId AND project_id = projectId
\* RETURNING id; the steps of a deleted funnel go with it (cascading delete)
DeleteFunnel(projectId, funnelId) ==
  LET deleted == {f \in funnelTables.funnels : f.id = funnelId /\ f.projectId = projectId}
  IN  /\ funnelTables' =
           [funnels |-> funnelTables.funnels \ deleted,
            steps |-> {t \in funnelTables.steps : t.funnelId \notin {f.id : f \in deleted}}]
      /\ funnelWrite' = [op |-> "deleteFunnel", args |-> <<projectId, funnelId>>, pc |-> "done",
                         result |-> [kind |-> IF deleted # {} THEN "true" ELSE "false"]]
      /\ UNCHANGED <<pipelineVars, besideFunnel, funnelCall>>


(***************************************************************************)
(* The funnel service over stored events                                   *)
(***************************************************************************)
\* funnel f1 of project p1 with three steps, funnel f2 of project p2 with two
WideFunnelTables ==
  [funnels |-> ProjectFunnels,
   steps |-> ProjectFunnelSteps \cup
               {[funnelId |-> "f1", stepKey |-> "s2", name |-> "S2", stepOrder |-> 1],
                [funnelId |-> "f1", stepKey |-> "s3", name |-> "S3", stepOrder |-> 2]}]

\* the row ingestEvents stores for a visit of session i to a step of f1
StepVisit(i, step, path, date) ==
  Stored({}, EventRow("p1",
                      [BasePayload EXCEPT !.session_id = "v" \o ToString(i), !.funnel_id = "f1",
                                          !.step = step, !.path = path,
                                          !.timestamp = [date |-> date, tod |-> 10, fmt |-> "ms"]],
                      {"f1"}, {<<"f1", "s1">>, <<"f1", "s2">>, <<"f1", "s3">>}))

\* sessions 1..n1 reach s1 (the first of them twice), 1..n2 reach s2 and
\* 1..n3 reach s3 on the next day; one event names the funnel without a step
FunnelStore(n1, n2, n3) ==
  {StepVisit(i, "s1", "/a", 20250101) : i \in 1..n1}
    \cup {StepVisit(1, "s1", "/b", 20250101) : i \in 1..(IF n1 > 0 THEN 1 ELSE 0)}
    \cup {StepVisit(i, "s2", "/a", 20250101) : i \in 1..n2}
    \cup {StepVisit(i, "s3", "/a", 20250102) : i \in 1..n3}
    \cup {StepVisit(0, NoValue, "/a", 20250101)}

FunnelStores ==
  {FunnelStore(10, 6, 6), FunnelStore(160, 23, 0), FunnelStore(3, 10, 1)}

FunnelRanges ==
  {<<Absent, Absent>>, <<Absent, [date |-> 20250101, tod |-> 86399, fmt |-> "ms"]>>}

\* (project, funnel) pairs of reads: own funnel, funnel of the other project,
\* unknown funnel
FunnelTargets == {<<"p1", "f1">>, <<"p2", "f1">>, <<"p1", "f9">>, <<"p2", "f2">>}
WriteTargets == {<<"p1", "f1">>, <<"p2", "f1">>, <<"p1", "f9">>}

\* steps in swapped order, and steps with one key twice
SwappedSteps ==
  <<[key |-> "s2", name |-> "S2", order |-> <<0>>], [key |-> "s1", name |-> "S1", order |-> <<1>>]>>
DuplicateSteps ==
  <<[key |-> "s1", name |-> "S1", order |-> <<>>], [key |-> "s1", name |-> "T1", order |-> <<>>]>>

NoInput == [name |-> <<>>, description |-> <<>>, isActive |-> <<>>, steps |-> <<>>]

UpdateInputs ==
  {[NoInput EXCEPT !.name = <<"G1">>],
   [NoInput EXCEPT !.steps = <<SwappedSteps>>],
   [NoInput EXCEPT !.steps = <<DuplicateSteps>>]}

\* the time of the only clock reading of these writes
UpdateTimes == {1}

InitFunnel ==
  /\ events \in FunnelStores
  /\ calls = [c \in CallSlots |-> IdleCall]
  /\ ingestCount = 0
  /\ lastResult = NoResult
  /\ pendingAggregations = <<>>
  /\ flushScheduled = FALSE
  /\ immediates = 0
  /\ scheduleCount = 0
  /\ flushes = [f \in FlushIds |-> IdleFlush]
  /\ lastFlush = NoFlush
  /\ rollups = EmptyRollups
  /\ cache = {}
  /\ reads = [r \in ReadSlots |-> IdleRead]
  /\ readCount = 0
  /\ lastRead = NoRead
  /\ settled = [p \in Projects |-> TRUE]
  /\ bulk = IdleBulk
  /\ funnelTables = WideFunnelTables
  /\ funnelCall = IdleFunnelCall
  /\ funnelWrite = IdleFunnelCall
  /\ cacheOp = IdleCacheOp
  /\ limiter = NoLimiter

NextFunnel ==
  \/ \E op \in {"getFunnel", "getFunnelStats"}, t \in FunnelTargets, r \in FunnelRanges :
       FunnelReadStart(op, t[1], t[2], r)
  \/ FunnelSelect
  \/ FunnelSelectSteps
  \/ FunnelCount
  \/ FunnelQueryFails
  \/ \E t \in WriteTargets, input \in UpdateInputs, now \in UpdateTimes :
       UpdateFunnel(t[1], t[2], input, now)
  \/ \E t \in WriteTargets : DeleteFunnel(t[1], t[2])

SpecFunnel == InitFunnel /\ [][NextFunnel]_vars


\* the distinct visitors of a step among the events of a project's funnel in
\* the range of the call
DistinctVisitors(table, projectId, funnelId, key, params) ==
  Cardinality({FunnelVisitorExpr(e) :
                 e \in {x \in table : /\ x.projectId = projectId /\ x.funnelId = funnelId
                                      /\ x.stepKey = key
                                      /\ InBulkRange(x, projectId, params[1], params[2])}})

\* C24: the statistics a call returns list the steps the call read, in their
\* stored order 0..n; with v(i) the distinct visitors of step i, totalVisitors
\* is v(0), visits of step i is v(i), conversions is v(i+1) and for the last
\* step v(n), and dropOff is max(visits - conversions, 0).
C24_StepStatsFollowCounts ==
  [][(funnelCall.pc = "counting" /\ funnelCall'.pc = "done"
      /\ funnelCall'.result.kind = "stats")
       => LET steps == funnelCall.funnel[1].steps
              n == Len(steps)
              out == funnelCall'.result
              v(i) == DistinctVisitors(events, funnelCall.args[1], funnelCall.args[2],
                                       steps[i].key, funnelCall.args[3])
          IN  /\ n > 0 /\ Len(out.steps) = n
              /\ out.funnelId = funnelCall.args[2]
              /\ out.totalVisitors = v(1)
              /\ \A i \in 1..n :
                   /\ steps[i].order = i - 1
                   /\ out.steps[i].stepKey = steps[i].key
                   /\ out.steps[i].name = steps[i].name
                   /\ out.steps[i].order = i - 1
                   /\ out.steps[i].visits = v(i)
                   /\ out.steps[i].conversions = (IF i < n THEN v(i + 1) ELSE v(n))
                   /\ out.steps[i].dropOff =
                        (IF v(i) > out.steps[i].conversions
                           THEN v(i) - out.steps[i].conversions ELSE 0)]_vars

\* a call returned the statistics of three steps visited by 10, 6 and 6
\* sessions: conversions 6, 6, 6, drop-offs 4, 0, 0 and 10 visitors in total
C24_Witness ==
  /\ funnelCall.op = "getFunnelStats" /\ funnelCall.pc = "done"
  /\ funnelCall.result.kind = "stats"
  /\ funnelCall.result.totalVisitors = 10
  /\ Len(funnelCall.result.steps) = 3
  /\ [i \in 1..3 |-> funnelCall.result.steps[i].visits] = <<10, 6, 6>>
  /\ [i \in 1..3 |-> funnelCall.result.steps[i].conversions] = <<6, 6, 6>>
  /\ [i \in 1..3 |-> funnelCall.result.steps[i].dropOff] = <<4, 0, 0>>


\* conversions / visits * 100 rounded to two decimal places, in hundredths
\* (a half is rounded up, as toFixed does with the number it is given)
RoundedRate(conversions, visits) == (20000 * conversions + visits) \div (2 * visits)

\* C25: every step of returned statistics carries the conversion rate
\* conversions / visits * 100 rounded to two decimal places, 0 when the step has no
\* visits, and the last step carries 100 when it has visits.
C25_RateIsRoundedRatio ==
  (funnelCall.op = "getFunnelStats" /\ funnelCall.pc = "done"
   /\ funnelCall.result.kind = "stats")
    => LET out == funnelCall.result.steps
       IN  \A i \in DOMAIN out :
             /\ out[i].visits = 0 => out[i].conversionRate = 0
             /\ out[i].visits > 0 =>
                  out[i].conversionRate = RoundedRate(out[i].conversions, out[i].visits)
             /\ (i = Len(out) /\ out[i].visits > 0) => out[i].conversionRate = 10000


\* the project has a funnel of that id
OwnsFunnel(projectId, funnelId) ==
  \E f \in funnelTables.funnels : f.id = funnelId /\ f.projectId = projectId

\* C26: when the funnel lookup of getFunnel or getFunnelStats answers and the
\* project has no funnel of the given id (the id is unknown or the funnel is
\* another project's), the call returns null there, without statistics;
\* updateFunnel returns null and deleteFunnel false for such a funnel; none of
\* them changes a funnel or a step.
C26_ForeignFunnelIsNotFound ==
  /\ [][(funnelCall.pc = "funnel" /\ funnelCall'.pc # "funnel"
         /\ funnelCall'.result.kind # "rejected"
         /\ ~OwnsFunnel(funnelCall.args[1], funnelCall.args[2]))
          => /\ funnelCall'.pc = "done"
             /\ funnelCall'.result = [kind |-> "null"]
             /\ funnelTables' = funnelTables]_vars
  /\ [][(funnelWrite' # funnelWrite /\ ~OwnsFunnel(funnelWrite'.args[1], funnelWrite'.args[2]))
          => /\ funnelWrite'.result.kind =
                  (IF funnelWrite'.op = "updateFunnel" THEN "null" ELSE "false")
             /\ funnelTables' = funnelTables]_vars

\* getFunnelStats of project p2 for funnel f1 of project p1 returned null,
\* updateFunnel of p2 for f1 returned null, and f1 is still there with its
\* name and its three steps
C26_Witness ==
  /\ funnelCall.op = "getFunnelStats" /\ funnelCall.pc = "done"
  /\ funnelCall.args[1] = "p2" /\ funnelCall.args[2] = "f1"
  /\ funnelCall.result.kind = "null"
  /\ funnelWrite.op = "updateFunnel"
  /\ funnelWrite.args[1] = "p2" /\ funnelWrite.args[2] = "f1"
  /\ funnelWrite.args[3].name = <<"G1">>
  /\ funnelWrite.result.kind = "null"
  /\ funnelTables = WideFunnelTables


(***************************************************************************)
(* statsCache called directly                                              *)
(***************************************************************************)
CacheNamespaces == {"overview", "pages"}

\* JSON.stringify({ path, pageUrl, from, to }) of getPageStats
PageKeyOf(params) ==
  <<params.path, params.pageUrl, normalizeDateToYYYYMMDD(params.from),
    normalizeDateToYYYYMMDD(params.to)>>

\* query fingerprints: two of the overview, two of pages; the second page path
\* holds "::" and the name of a project
CacheIdentifiers ==
  [overview |-> {CacheKeyOf([granularity |-> "daily", from |-> Absent, to |-> Absent]),
                 CacheKeyOf([granularity |-> "monthly", from |-> Absent, to |-> Absent])},
   pages |-> {PageKeyOf([path |-> "/a", pageUrl |-> NoValue, from |-> Absent, to |-> Absent]),
              PageKeyOf([path |-> "/x::p2::y", pageUrl |-> NoValue, from |-> Absent,
                         to |-> Absent])}]

\* cached results
CacheValues == {<<>>, <<"rows">>}

CacheSet(namespace, projectId, identifier, value) ==
  /\ cache' = setCachedValue(cache, namespace, projectId, identifier, value)
  /\ cacheOp' = [op |-> "set", projectId |-> projectId, removed |-> {}]
  /\ UNCHANGED <<ingestVars, schedulerVars, scheduleCount, flushVars, readVars,
                 bulkVars, funnelVars, limiter>>

CacheInvalidate(projectId) ==
  /\ cache' = invalidateProjectCache(cache, projectId)
  /\ cacheOp' = [op |-> "invalidate", projectId |-> projectId, removed |-> cache \ cache']
  /\ UNCHANGED <<ingestVars, schedulerVars, scheduleCount, flushVars, readVars,
                 bulkVars, funnelVars, limiter>>

NextCache ==
  \/ \E ns \in CacheNamespaces, p \in Projects, v \in CacheValues :
       \E id \in CacheIdentifiers[ns] : CacheSet(ns, p, id, v)
  \/ \E p \in Projects : CacheInvalidate(p)
  \/ CacheExpire

SpecCache == Init /\ [][NextCache]_vars

\* C29: invalidateProjectCache(P) removes every entry of project P, in both
\* namespaces and for every fingerprint, and neither removes nor changes an
\* entry of another project.
C29_InvalidationIsPerProject ==
  [][\A p \in Projects :
       CacheInvalidate(p)
         => /\ \A e \in cache : e.key[2] = p => e \notin cache'
            /\ \A e \in cache : e.key[2] # p => e \in cache'
            /\ cache' \subseteq cache
            /\ \A ns \in CacheNamespaces, q \in Projects : \A id \in CacheIdentifiers[ns] :
                 getCachedValue(cache', ns, q, id) =
                   (IF q = p THEN {} ELSE getCachedValue(cache, ns, q, id))]_vars

\* an invalidation of p1 removed overview and pages entries of p1 while
\* entries of p2 in both namespaces stay, one of them under the page path that
\* holds "::"
C29_Witness ==
  /\ cacheOp.op = "invalidate" /\ cacheOp.projectId = "p1"
  /\ \A ns \in CacheNamespaces : \E e \in cacheOp.removed : e.key[1] = ns
  /\ Cardinality(cacheOp.removed) = 4
  /\ \A ns \in CacheNamespaces : \A id \in CacheIdentifiers[ns] :
       /\ getCachedValue(cache, ns, "p1", id) = {}
       /\ getCachedValue(cache, ns, "p2", id) # {}


(***************************************************************************)
(* ProjectRateLimiter                                                      *)
(***************************************************************************)
\* constructor arguments
LimiterLimits == {0, 1, 2}
WindowLengths == {2}
\* the clock stops here
MaxNow == 4
\* calls of a project are followed up to this many true answers in one window
MaxGrants == 3

\* new ProjectRateLimiter(maxRequests, windowMs)
NewProjectRateLimiter(maxRequests, windowMs) ==
  /\ ~limiter.constructed
  /\ limiter' = [limiter EXCEPT !.constructed = TRUE, !.maxRequests = maxRequests,
                                !.windowMs = windowMs]
  /\ UNCHANGED <<pipelineVars, bulkVars, funnelVars, cacheOp>>

\* Date.now() advances
ClockTick ==
  /\ limiter.constructed
  /\ limiter.now < MaxNow
  /\ limiter' = [limiter EXCEPT !.now = @ + 1]
  /\ UNCHANGED <<pipelineVars, bulkVars, funnelVars, cacheOp>>

\* a plausible slip: the limit is compared with > instead of >=
OverLimit(count, maxRequests) == count > maxRequests

\* existing.count >= this.maxRequests
AtLimit(count, maxRequests) == count >= maxRequests

\* a plausible slip: the window is over only after its reset time
WindowPassedStrictly(now, resetTime) == now > resetTime

\* now >= existing.resetTime
WindowPassed(now, resetTime) == now >= resetTime

\* the limits map and the answer of isAllowed(projectId) at time now
isAllowed(state, projectId) ==
  LET existing == state.limits[projectId]
  IN  IF state.maxRequests <= 0 THEN [limits |-> state.limits, allowed |-> TRUE]
      ELSE IF existing = <<>> \/ WindowPassed(state.now, existing[1].resetTime)
        THEN [limits |-> [state.limits EXCEPT ![projectId] =
                            <<[count |-> 1, resetTime |-> state.now + state.windowMs]>>],
              allowed |-> TRUE]
      ELSE IF AtLimit(existing[1].count, state.maxRequests)
        THEN [limits |-> state.limits, allowed |-> FALSE]
      ELSE [limits |-> [state.limits EXCEPT ![projectId] =
                          <<[existing[1] EXCEPT !.count = @ + 1]>>],
            allowed |-> TRUE]

\* isAllowed(projectId) is called.  The record of the project's window is kept
\* by the clock alone: a call answered true at or after the end of the
\* project's window opens a window that ends windowMs later.  refusedAt is
\* the time of the project's last call answered false.
IsAllowed(projectId) ==
  /\ limiter.constructed
  /\ limiter.windowEnd[projectId] > limiter.now => limiter.granted[projectId] < MaxGrants
  /\ LET answer == isAllowed(limiter, projectId)
         current == limiter.windowEnd[projectId] > limiter.now
     IN  limiter' =
           [limiter EXCEPT
              !.limits = answer.limits, !.projectId = projectId, !.allowed = answer.allowed,
              !.granted[projectId] =
                 IF ~answer.allowed THEN @ ELSE IF current THEN @ + 1 ELSE 1,
              !.windowEnd[projectId] =
                 IF answer.allowed /\ ~current THEN limiter.now + limiter.windowMs ELSE @,
              !.refusedAt[projectId] = IF answer.allowed THEN @ ELSE limiter.now]
  /\ UNCHANGED <<pipelineVars, bulkVars, funnelVars, cacheOp>>

\* cleanup(now = Date.now())
LimiterCleanup ==
  /\ limiter.constructed
  /\ limiter' = [limiter EXCEPT !.limits =
                   [p \in Projects |->
                      IF @[p] # <<>> /\ limiter.now >= @[p][1].resetTime THEN <<>> ELSE @[p]]]
  /\ UNCHANGED <<pipelineVars, bulkVars, funnelVars, cacheOp>>

NextLimiter ==
  \/ \E m \in LimiterLimits, w \in WindowLengths : NewProjectRateLimiter(m, w)
  \/ ClockTick
  \/ \E p \in Projects : IsAllowed(p)
  \/ LimiterCleanup

SpecLimiter == Init /\ [][NextLimiter]_vars

\* C30: with maxRequests >= 1, no more than maxRequests calls of a project are
\* answered true within one window of the project, a call in a window that has
\* used its maxRequests is answered false, the stored count stays within
\* maxRequests, and a call for one project changes neither the answer the
\* next call of another project gets nor the entry or the window record of
\* the other project.
C30_WindowGrantsAtMostMax ==
  /\ [](limiter.maxRequests >= 1
          => \A p \in Projects :
               /\ limiter.granted[p] <= limiter.maxRequests
               /\ limiter.limits[p] # <<>> => limiter.limits[p][1].count <= limiter.maxRequests)
  /\ [][\A p \in Projects :
          (IsAllowed(p) /\ limiter.maxRequests >= 1)
            => /\ (limiter.windowEnd[p] > limiter.now
                   /\ limiter.granted[p] >= limiter.maxRequests) => ~limiter'.allowed
               /\ \A q \in Projects \ {p} :
                    /\ isAllowed(limiter', q).allowed = isAllowed(limiter, q).allowed
                    /\ limiter'.limits[q] = limiter.limits[q]
                    /\ limiter'.granted[q] = limiter.granted[q]
                    /\ limiter'.windowEnd[q] = limiter.windowEnd[q]]_vars

\* with maxRequests 2, project p1 has used both calls of its window and was
\* just refused, while p2 has been granted its first call in the same window
C30_Witness ==
  /\ limiter.maxRequests = 2
  /\ limiter.granted["p1"] = 2 /\ limiter.windowEnd["p1"] > limiter.now
  /\ limiter.projectId = "p1" /\ ~limiter.allowed
  /\ limiter.granted["p2"] = 1 /\ limiter.windowEnd["p2"] > limiter.now
  /\ limiter.limits["p2"] # <<>>

\* the limiter as a call at the later time t finds it
LimiterAt(state, t) == [state EXCEPT !.now = t]

\* C31: with maxRequests >= 1, a call of a project at or after the end of its
\* window (so at a time >= resetTime of its entry, if cleanup has left one)
\* is answered true and leaves the entry {count: 1, resetTime: now + windowMs},
\* whether the old entry is still stored or cleanup has removed it; cleanup
\* removes only entries whose resetTime is <= now, and for every project and
\* every time from now on a call gets the same answer and leaves the same
\* entry after the cleanup as it would have without it.
C31_AllowedAgainAfterWindow ==
  /\ [][\A p \in Projects :
          (IsAllowed(p) /\ limiter.maxRequests >= 1 /\ limiter.windowEnd[p] <= limiter.now)
            => /\ limiter.limits[p] # <<>> => limiter.now >= limiter.limits[p][1].resetTime
               /\ limiter'.allowed
               /\ limiter'.limits[p] =
                    <<[count |-> 1, resetTime |-> limiter.now + limiter.windowMs]>>]_vars
  /\ [][LimiterCleanup
          => \A p \in Projects :
               /\ \/ limiter'.limits[p] = limiter.limits[p]
                  \/ /\ limiter.limits[p] # <<>>
                     /\ limiter.limits[p][1].resetTime <= limiter.now
                     /\ limiter'.limits[p] = <<>>
               /\ \A t \in limiter.now .. MaxNow :
                    /\ isAllowed(LimiterAt(limiter', t), p).allowed
                         = isAllowed(LimiterAt(limiter, t), p).allowed
                    /\ isAllowed(LimiterAt(limiter', t), p).limits[p]
                         = isAllowed(LimiterAt(limiter, t), p).limits[p]]_vars

\* with maxRequests 1 project p1 was refused inside its window, the window has
\* passed, and the call made now was answered true and opened a new window
C31_Witness ==
  /\ limiter.maxRequests = 1
  /\ limiter.refusedAt["p1"] >= 0
  /\ limiter.refusedAt["p1"] + limiter.windowMs <= limiter.now
  /\ limiter.projectId = "p1" /\ limiter.allowed
  /\ limiter.granted["p1"] = 1
  /\ limiter.limits["p1"] =
       <<[count |-> 1, resetTime |-> limiter.now + limiter.windowMs]>>

\* C39: every step of returned statistics has a conversion rate between 0 and
\* 100 (0 and 10000 hundredths), and its visits are the sum of its
\* conversions and its drop-off.
C39_RateWithinBoundsAndSplit ==
  (funnelCall.op = "getFunnelStats" /\ funnelCall.pc = "done"
   /\ funnelCall.result.kind = "stats")
    => LET out == funnelCall.result.steps
       IN  \A i \in DOMAIN out :
             /\ out[i].conversionRate >= 0 /\ out[i].conversionRate <= 10000
             /\ out[i].visits = out[i].conversions + out[i].dropOff


(***************************************************************************)
(* funnelService: the writes createFunnel, updateFunnel, deleteFunnel      *)
(***************************************************************************)
\* the id the store generates for a new funnel
NewFunnelIds == {"f3"}
\* clock readings of the writes
WriteTimes == {1, 2}

CreateInputs ==
  {[NoInput EXCEPT !.name = <<"G3">>],
   [NoInput EXCEPT !.name = <<"G3">>, !.steps = <<SwappedSteps>>],
   [NoInput EXCEPT !.name = <<"G3">>, !.steps = <<DuplicateSteps>>],
   [NoInput EXCEPT !.name = <<"G3">>, !.description = <<"d">>, !.isActive = <<FALSE>>,
                   !.steps = <<DuplicateSteps>>]}

RewriteInputs ==
  {[NoInput EXCEPT !.description = <<"d">>, !.isActive = <<FALSE>>],
   [NoInput EXCEPT !.steps = <<SwappedSteps>>],
   [NoInput EXCEPT !.steps = <<DuplicateSteps>>],
   [NoInput EXCEPT !.name = <<"G1">>, !.steps = <<DuplicateSteps>>]}

\* own funnel, funnel of the other project, the funnel created
RewriteTargets == {<<"p1", "f1">>, <<"p2", "f1">>, <<"p1", "f3">>}

InitFunnelWrite == Init

NextFunnelWrite ==
  \/ \E p \in Projects, input \in CreateInputs, id \in NewFunnelIds, now \in WriteTimes :
       CreateFunnel(p, input, id, now)
  \/ \E t \in RewriteTargets, input \in RewriteInputs, now \in WriteTimes :
       UpdateFunnel(t[1], t[2], input, now)
  \/ \E t \in RewriteTargets : DeleteFunnel(t[1], t[2])

SpecFunnelWrite == InitFunnelWrite /\ [][NextFunnelWrite]_vars

\* the steps of the input hold one key twice
HasDuplicateSteps(input) ==
  /\ input.steps # <<>>
  /\ \E i, j \in DOMAIN input.steps[1] : i # j /\ input.steps[1][i].key = input.steps[1][j].key

\* C40: a createFunnel call whose steps hold a key twice, and an updateFunnel
\* call for a funnel of the project whose steps hold a key twice, is rejected
\* with the duplicate-key error and leaves every funnel row (name,
\* description, active flag, updated-at) and every step row as before the
\* call: no funnel row of the new id, and the funnel's previous steps.
C40_RejectedWriteChangesNothing ==
  [][LET call == funnelWrite'
     IN  (/\ call.op \in {"createFunnel", "updateFunnel"}
          /\ HasDuplicateSteps(call.args[3])
          /\ call.op = "updateFunnel" => OwnsFunnel(call.args[1], call.args[2]))
           => /\ call.result = [kind |-> "rejected", error |-> "Duplicate step key detected"]
              /\ funnelTables' = funnelTables
              /\ call.op = "createFunnel"
                   => FindFunnelById(funnelTables', call.args[1], call.args[2]) = {}]_vars

\* updateFunnel for f1 of p1 with the new name G1 and steps holding s1 twice
\* was rejected; f1 has kept its name, the description, the flag and the
\* updated-at that an earlier update gave it, and its steps s2, s1
C40_Witness ==
  /\ funnelWrite.op = "updateFunnel"
  /\ funnelWrite.args[1] = "p1" /\ funnelWrite.args[2] = "f1"
  /\ funnelWrite.args[3] = [NoInput EXCEPT !.name = <<"G1">>, !.steps = <<DuplicateSteps>>]
  /\ funnelWrite.result.kind = "rejected"
  /\ \E f \in funnelTables.funnels :
       /\ f.id = "f1" /\ f.name = "F1" /\ f.description = "d" /\ ~f.isActive
       /\ f.updatedAt = 1
  /\ {<<t.stepKey, t.stepOrder>> : t \in {u \in funnelTables.steps : u.funnelId = "f1"}}
       = {<<"s2", 0>>, <<"s1", 1>>}


(***************************************************************************)
(* ingestEvents: batches that store nothing                                *)
(***************************************************************************)
\* C38: a call whose insert returned no row reports accepted = 0 and every
\* row skipped, and an empty batch reports 0, 0, 0 at once; neither changes
\* the pending aggregation map, the flush flag or the queued callbacks, and
\* neither touches a flush, a rollup table or the cache.
C38_NothingAcceptedNothingScheduled ==
  /\ [][\A c \in CallSlots :
          (ReturnStep(c) /\ calls[c].inserted = {})
            => /\ lastResult' = OkResult(calls[c].projectId, 0, Len(calls[c].rows),
                                         Len(calls[c].rows))
               /\ SchedulerUntouched
               /\ UNCHANGED <<flushVars, cache>>]_vars
  /\ [][(ImmediateReturnStep /\ lastResult'.kind = "ok")
          => /\ lastResult'.accepted = 0 /\ lastResult'.total = 0 /\ lastResult'.skipped = 0
             /\ SchedulerUntouched
             /\ UNCHANGED <<events, flushVars, cache>>]_vars

\* the second call for p1 brought two events that were both stored already:
\* it returned accepted 0, skipped 2, and the scheduler holds what the first
\* call left: one date of p1 and one queued callback
C38_Witness ==
  /\ ingestCount = 2
  /\ lastResult = OkResult("p1", 0, 2, 2)
  /\ \A c \in CallSlots : calls[c].pc = "idle"
  /\ Cardinality(events) = 1
  /\ PendingDates(pendingAggregations, "p1") = {20250101}
  /\ PendingDates(pendingAggregations, "p2") = {}
  /\ flushScheduled /\ immediates = 1


(***************************************************************************)
(* ingestEvents and the flush it triggers                                  *)
(***************************************************************************)
\* the scheduler is signalled: dates are added, the flag is raised or a
\* callback is queued
SchedulerSignalled ==
  \/ \E p \in Projects :
       ~(PendingDates(pendingAggregations', p) \subseteq PendingDates(pendingAggregations, p))
  \/ flushScheduled' /\ ~flushScheduled
  \/ immediates' > immediates

\* a flushQueue execution takes its snapshot and begins its first rebuild
FlushBegins == \E f \in FlushIds : flushes[f].pc = "idle" /\ flushes'[f].pc # "idle"

\* C33: the scheduler is signalled only in the step in which an ingestEvents
\* call returns its result after an insert that stored rows, all of them
\* committed to the event store; a call that throws signals nothing and
\* stores nothing; a flush begins only from a queued callback, in a step of
\* its own that is no step of an ingestEvents call; and until the first call
\* has returned there is no pending date, no queued or running flush and no
\* rollup row.
C33_RebuildAfterInsertAndReturn ==
  /\ [][SchedulerSignalled
          => \E c \in CallSlots :
               /\ ReturnStep(c) /\ calls[c].inserted # {}
               /\ lastResult'.kind = "ok" /\ lastResult'.accepted > 0
               /\ calls[c].inserted \subseteq {e.id : e \in events}
               /\ events' = events]_vars
  /\ [][\A c \in CallSlots :
          (calls[c].pc = "validated" /\ calls'[c].pc = "idle")
            => /\ lastResult'.kind = "error"
               /\ events' = events
               /\ SchedulerUntouched
               /\ UNCHANGED flushVars]_vars
  /\ [][FlushBegins
          => /\ immediates > 0 /\ immediates' = immediates - 1
             /\ UNCHANGED ingestVars]_vars
  /\ []((ingestCount <= 1 /\ lastResult.kind # "ok")
          => /\ pendingAggregations = <<>> /\ ~flushScheduled /\ immediates = 0
             /\ \A f \in FlushIds : flushes[f].pc = "idle"
             /\ lastFlush = NoFlush
             /\ rollups = EmptyRollups)

\* the first call has stored its event and returned accepted 1; the flush it
\* queued has begun since and is rebuilding the date of the event
C33_Witness ==
  /\ ingestCount = 1
  /\ lastResult = OkResult("p1", 1, 1, 0)
  /\ calls["c1"].pc = "idle"
  /\ Cardinality(events) = 1
  /\ immediates = 0
  /\ flushes[1].pc = "busy"
  /\ flushes[1].trx.projectId = "p1" /\ flushes[1].trx.date = 20250101
  /\ flushes[1].trx.state = "open"


(***************************************************************************)
(* The scheduler between its steps                                         *)
(***************************************************************************)
\* the timestamps of the call yield no date
NamesNoDate(occurredAtValues) ==
  \A i \in DOMAIN occurredAtValues : normalizeDate(occurredAtValues[i]) = 0

\* C36: whenever the pending map holds a date for some project, flushScheduled
\* is true and a callback is queued; and a scheduleProjectAggregation call
\* with an empty list or with timestamps none of which parses leaves the
\* dates of every project, the flag and the callback queue as they were.
C36_PendingDatesHaveAFlush ==
  /\ []((\E p \in Projects : PendingDates(pendingAggregations, p) # {})
          => flushScheduled /\ immediates > 0)
  /\ [][\A p \in Projects, values \in ScheduleInputs :
          (Schedule(p, values) /\ NamesNoDate(values))
            => /\ \A q \in Projects :
                    PendingDates(pendingAggregations', q) = PendingDates(pendingAggregations, q)
               /\ flushScheduled' = flushScheduled
               /\ immediates' = immediates]_vars

\* after a call for p1 with a timestamp of 2025-01-01 and a call for p2 with
\* an unparsable timestamp, p1 has its date pending, p2 has an entry without
\* a date, and one flush is scheduled
C36_Witness ==
  /\ scheduleCount = 2
  /\ Len(pendingAggregations) = 2
  /\ PendingDates(pendingAggregations, "p1") = {20250101}
  /\ PendingIndex(pendingAggregations, "p2") # {}
  /\ PendingDates(pendingAggregations, "p2") = {}
  /\ flushScheduled /\ immediates = 1
  /\ \A f \in FlushIds : flushes[f].pc = "idle"

\* C34: in every flush, a project whose rebuild failed was rebuilt for the
\* dates of its snapshot before the failed date d and for none after it (d is
\* the last date attempted); the step that handles the failure leaves the
\* pending map, the flag and the callback queue alone; dates enter the pending
\* map only in a scheduleProjectAggregation call; a flush rebuilds only dates
\* of the snapshot it took; and with no date pending no flush is queued.
C34_FailedDateIsNotRetried ==
  /\ [](\A rec \in FlushRecords : \A j \in DOMAIN rec.entries :
          rec.log[j].failed
            => LET attempted == rec.log[j].attempted
               IN  /\ attempted # <<>>
                   /\ IsPrefix(attempted, SortAsc(rec.entries[j].dates))
                   /\ rec.log[j].rebuilt = SubSeq(attempted, 1, Len(attempted) - 1))
  /\ [](\A f \in FlushIds :
          Busy(f) => /\ flushes[f].trx.projectId = flushes[f].entries[flushes[f].i].projectId
                     /\ flushes[f].trx.date \in flushes[f].entries[flushes[f].i].dates)
  /\ []((\A p \in Projects : PendingDates(pendingAggregations, p) = {})
          => immediates = 0 /\ ~flushScheduled)
  /\ [][(\E f \in FlushIds : Busy(f) /\ flushes[f].trx.state = "failed"
                                /\ flushes'[f] # flushes[f])
          => SchedulerUntouched]_vars
  /\ [][(\E p \in Projects : ~(PendingDates(pendingAggregations', p)
                                  \subseteq PendingDates(pendingAggregations, p)))
          => ScheduleStep]_vars

\* a flush took the dates 2025-01-01 and 2025-01-02 of p1, the rebuild of the
\* first failed and the second was not attempted; the flush has ended, no
\* date is pending, no flush is queued or running and no rollup row exists
C34_Witness ==
  /\ Len(lastFlush.entries) = 1
  /\ lastFlush.entries[1] = [projectId |-> "p1", dates |-> {20250101, 20250102}]
  /\ lastFlush.log[1].failed
  /\ lastFlush.log[1].attempted = <<20250101>>
  /\ lastFlush.log[1].rebuilt = <<>>
  /\ pendingAggregations = <<>>
  /\ immediates = 0 /\ ~flushScheduled
  /\ \A f \in FlushIds : ~Busy(f)
  /\ rollups = EmptyRollups

\* C35: a flush that has ended invalidated the cache of every project for
\* which it committed the rebuild of at least one date; so once no flush is
\* working on a project, no rebuild of the project has committed since its
\* cache was last invalidated.
C35_CommittedRebuildIsInvalidated ==
  /\ \A j \in DOMAIN lastFlush.entries :
       lastFlush.log[j].rebuilt # <<>> => lastFlush.log[j].invalidated >= 1
  /\ \A p \in Projects :
       (\A f \in FlushIds : Busy(f) => flushes[f].entries[flushes[f].i].projectId # p)
         => settled[p]


(***************************************************************************)
(* recomputeDailyAggregates: what a rebuild leaves alone                   *)
(***************************************************************************)
\* the rows of a rollup table that are not keyed by (p, d)
RowsBeside(tables, name, p, d) ==
  {r \in tables[name] : ~(r.projectId = p /\ r.eventDate = d)}

\* C37: the rollup tables change only in the COMMIT of a rebuild; the COMMIT
\* of the rebuild of (p, d) leaves in all four tables every row not keyed by
\* (p, d) as it was and puts there only rows keyed by (p, d); no step of a
\* rebuild transaction (statement, COMMIT or failure) changes the event
\* store, the pending map, the flag, the callback queue or the cache.
C37_RebuildTouchesOnlyItsDate ==
  /\ [][rollups' # rollups => \E p \in Projects, d \in Dates : CommitStep(p, d)]_vars
  /\ [][\A p \in Projects, d \in Dates :
          CommitStep(p, d)
            => \A name \in TableSet :
                 /\ RowsBeside(rollups', name, p, d) = RowsBeside(rollups, name, p, d)
                 /\ \A r \in rollups'[name] \ rollups[name] :
                      r.projectId = p /\ r.eventDate = d]_vars
  /\ [][(\E f \in FlushIds : flushes[f].trx.state = "open"
                                /\ flushes'[f].trx.state \in {"open", "committed", "failed"}
                                /\ flushes'[f].trx # flushes[f].trx)
          => /\ events' = events
             /\ SchedulerUntouched
             /\ cache' = cache]_vars

\* the rebuild of (p2, 2025-01-01) has committed its rows into tables that
\* hold the rows of p1 for 2025-01-01 and 2025-01-02
C37_Witness ==
  /\ \E f \in FlushIds :
       /\ flushes[f].trx.state = "committed"
       /\ flushes[f].trx.projectId = "p2" /\ flushes[f].trx.date = 20250101
  /\ \A name \in TableSet :
       /\ RowsOf(rollups, name, "p2", 20250101) # {}
       /\ RowsOf(rollups, name, "p1", 20250101) # {}
       /\ RowsOf(rollups, name, "p1", 20250102) # {}


(***************************************************************************)
(* Cached page reader: getPageStats                                        *)
(***************************************************************************)
\* .limit(50)
PageLimit == 50

PageParams ==
  {[path |-> NoValue, pageUrl |-> NoValue, from |-> Absent, to |-> Absent],
   [path |-> "/a", pageUrl |-> NoValue, from |-> Absent, to |-> Absent],
   [path |-> NoValue, pageUrl |-> "https://site/zz",
    from |-> [date |-> 20250102, tod |-> 0, fmt |-> "ms"], to |-> Absent]}

\* the conditions both queries share: project, date range, path and page url
\* when the caller gave them
PageConditions(x, projectId, params) ==
  /\ x.projectId = projectId
  /\ buildDateRangeFilters(x.eventDate, normalizeDateToYYYYMMDD(params.from),
                           normalizeDateToYYYYMMDD(params.to))
  /\ params.path # NoValue => x.pagePath = params.path
  /\ params.pageUrl # NoValue => x.pageUrl = params.pageUrl

\* first query: SUM(visits), MIN(first_seen_at), MAX(last_seen_at) of
\* page_agg_daily GROUP BY page_path, page_url
PageGroups(tables, projectId, params) ==
  LET rows == {x \in tables.page : PageConditions(x, projectId, params)}
  IN  {LET g == {x \in rows : x.pagePath = k[1] /\ x.pageUrl = k[2]}
       IN  [pagePath |-> k[1], pageUrl |-> k[2], visits |-> SumVisits(g),
            firstSeenAt |-> CHOOSE t \in {x.firstSeenAt : x \in g} :
                              \A x \in g : InstantLeq(t, x.firstSeenAt),
            lastSeenAt |-> CHOOSE t \in {x.lastSeenAt : x \in g} :
                             \A x \in g : InstantLeq(x.lastSeenAt, t)] :
         k \in {<<x.pagePath, x.pageUrl>> : x \in rows}}

\* ORDER BY SUM(visits) DESC LIMIT 50: the orders the database may return the
\* groups in (groups of equal visits come in any order)
PageRowOrders(groups) ==
  LET n == Cardinality(groups)
      orders == {seq \in [1..n -> groups] :
                   \A i, j \in 1..n : i < j => seq[i] # seq[j] /\ seq[i].visits >= seq[j].visits}
  IN  {SubSeq(seq, 1, IF n > PageLimit THEN PageLimit ELSE n) : seq \in orders}

\* second query: COUNT(DISTINCT visitor_hash) of project_page_visitors_daily
\* GROUP BY page_path, page_url, scoped to the pages of the first query when
\* the caller gave neither path nor page url
PageVisitorRows(tables, projectId, params, pageRows) ==
  LET scoped == params.path = NoValue /\ params.pageUrl = NoValue
      rows == {x \in tables.pageVisitors :
                 /\ PageConditions(x, projectId, params)
                 /\ scoped => \E i \in DOMAIN pageRows :
                                 x.pagePath = pageRows[i].pagePath
                                 /\ x.pageUrl = pageRows[i].pageUrl}
  IN  {[pagePath |-> k[1], pageUrl |-> k[2],
        uniqueVisitors |->
          Cardinality({x.visitorHash : x \in {y \in rows : y.pagePath = k[1]
                                                             /\ y.pageUrl = k[2]}})] :
         k \in {<<x.pagePath, x.pageUrl>> : x \in rows}}

\* pageRows.map(row => ...) with the counts of uniqueMap
PageStatsOf(pageRows, visitorRows) ==
  [i \in DOMAIN pageRows |->
     LET found == {v \in visitorRows : v.pagePath = pageRows[i].pagePath
                                       /\ v.pageUrl = pageRows[i].pageUrl}
     IN  [path |-> pageRows[i].pagePath, pageUrl |-> pageRows[i].pageUrl,
          visits |-> pageRows[i].visits,
          uniqueVisitors |-> IF found = {} THEN 0 ELSE (CHOOSE v \in found : TRUE).uniqueVisitors,
          firstSeen |-> ToISOString(pageRows[i].firstSeenAt),
          lastSeen |-> ToISOString(pageRows[i].lastSeenAt)]]

\* getPageStats up to the cache lookup; a hit returns at once
PageReadStart(r, projectId, params) ==
  /\ readCount < MaxReads
  /\ reads[r].pc = "idle"
  /\ readCount' = readCount + 1
  /\ LET cached == getCachedValue(cache, "pages", projectId, PageKeyOf(params))
     IN IF IsHit(cached)
        THEN /\ lastRead' = [seq |-> readCount + 1, namespace |-> "pages",
                             projectId |-> projectId, params |-> params,
                             value |-> (CHOOSE e \in cached : TRUE).value, hit |-> TRUE]
             /\ UNCHANGED reads
        ELSE /\ reads' = [reads EXCEPT ![r] =
                            [IdleRead EXCEPT !.pc = "queryPages", !.seq = readCount + 1,
                                             !.namespace = "pages",
                                             !.projectId = projectId, !.params = params]]
             /\ UNCHANGED lastRead
  /\ UNCHANGED <<serviceVars, ingestVars, schedulerVars, scheduleCount, flushVars, cache>>

\* the database answers the first query and the call resumes: without rows
\* the empty result is cached and returned
PageQueryRows(r) ==
  /\ reads[r].pc = "queryPages"
  /\ \E pageRows \in PageRowOrders(PageGroups(rollups, reads[r].projectId, reads[r].params)) :
       IF Len(pageRows) = 0
       THEN /\ cache' = setCachedValue(cache, "pages", reads[r].projectId,
                                       PageKeyOf(reads[r].params), <<>>)
            /\ lastRead' = [seq |-> reads[r].seq, namespace |-> "pages",
                            projectId |-> reads[r].projectId, params |-> reads[r].params,
                            value |-> <<>>, hit |-> FALSE]
            /\ reads' = [reads EXCEPT ![r] = IdleRead]
       ELSE /\ reads' = [reads EXCEPT ![r].pageRows = pageRows,
                                      ![r].pc = "queryPageVisitors"]
            /\ UNCHANGED <<cache, lastRead>>
  /\ UNCHANGED <<serviceVars, ingestVars, schedulerVars, scheduleCount, flushVars, readCount>>

\* the database answers the second query
PageQueryVisitors(r) ==
  /\ reads[r].pc = "queryPageVisitors"
  /\ reads' = [reads EXCEPT
                 ![r].visitorRows = PageVisitorRows(rollups, reads[r].projectId,
                                                    reads[r].params, reads[r].pageRows),
                 ![r].pc = "finishPages"]
  /\ UNCHANGED <<serviceVars, ingestVars, schedulerVars, scheduleCount, flushVars, cache, readCount,
                 lastRead>>

\* the call resumes with the counts: build the result, cache it, return it
PageFinish(r) ==
  /\ reads[r].pc = "finishPages"
  /\ LET read == reads[r]
         result == PageStatsOf(read.pageRows, read.visitorRows)
     IN /\ cache' = setCachedValue(cache, "pages", read.projectId,
                                   PageKeyOf(read.params), result)
        /\ lastRead' = [seq |-> read.seq, namespace |-> "pages",
                        projectId |-> read.projectId,
                        params |-> read.params, value |-> result, hit |-> FALSE]
  /\ reads' = [reads EXCEPT ![r] = IdleRead]
  /\ UNCHANGED <<serviceVars, ingestVars, schedulerVars, scheduleCount, flushVars, readCount>>

----------------------------------------------------------------------------
(* The two readers over rollup tables that do not change *)

\* the rollup tables after every (project, date) of the event table was rebuilt
RebuiltRollups(eventTable) ==
  [name \in DOMAIN EmptyRollups |->
     UNION {SelectFor(name, eventTable, p, d) : p \in Projects, d \in Dates}]

InitReaders ==
  /\ events = SeedEvents
  /\ calls = [c \in CallSlots |-> IdleCall]
  /\ ingestCount = 0
  /\ lastResult = NoResult
  /\ pendingAggregations = <<>>
  /\ flushScheduled = FALSE
  /\ immediates = 0
  /\ scheduleCount = 0
  /\ flushes = [f \in FlushIds |-> IdleFlush]
  /\ lastFlush = NoFlush
  /\ rollups \in {EmptyRollups, RebuiltRollups(SeedEvents)}
  /\ cache = {}
  /\ reads = [r \in ReadSlots |-> IdleRead]
  /\ readCount = 0
  /\ lastRead = NoRead
  /\ settled = [p \in Projects |-> TRUE]
  /\ ServicesIdle

NextReaders ==
  \/ \E r \in ReadSlots, p \in Projects, params \in ReadParams : ReadStart(r, p, params)
  \/ \E r \in ReadSlots : ReadQueryOverview(r)
  \/ \E r \in ReadSlots : ReadQueryVisitors(r)
  \/ \E r \in ReadSlots : ReadFinish(r)
  \/ \E r \in ReadSlots, p \in Projects, params \in PageParams : PageReadStart(r, p, params)
  \/ \E r \in ReadSlots : PageQueryRows(r)
  \/ \E r \in ReadSlots : PageQueryVisitors(r)
  \/ \E r \in ReadSlots : PageFinish(r)
  \/ \E p \in Projects : CacheInvalidate(p)
  \/ CacheExpire

SpecReaders == InitReaders /\ [][NextReaders]_vars

\* the cache identifier of a read
ReadKey(read) ==
  IF read.namespace = "pages" THEN PageKeyOf(read.params) ELSE CacheKeyOf(read.params)

\* the entries under the key of a read
EntriesOf(entries, read) ==
  getCachedValue(entries, read.namespace, read.projectId, ReadKey(read))

\* what a read that misses may compute from the rollup tables
FreshResults(tables, read) ==
  IF read.namespace = "overview"
  THEN {FreshOverview(tables, read.projectId, read.params)}
  ELSE {PageStatsOf(pageRows, PageVisitorRows(tables, read.projectId, read.params, pageRows)) :
          pageRows \in PageRowOrders(PageGroups(tables, read.projectId, read.params))}

\* a step that belongs to a read
ReadStep == reads' # reads \/ lastRead' # lastRead \/ readCount' # readCount

\* C32: a getOverviewStats or getPageStats call that finds an entry under
\* (namespace, project, normalized parameters) returns the value of the entry
\* at once, without a query and without touching the cache; a call that goes
\* on to the rollup tables found no entry; when such a call returns, its
\* result is computed from the rollup tables and is the value of the entry
\* then stored under its key, also when the result is empty; and no step of
\* a read removes the entry of any key.
C32_ReadThroughCache ==
  /\ [][(readCount' = readCount + 1 /\ reads' = reads)
          => /\ lastRead'.hit /\ lastRead'.seq = readCount'
             /\ EntriesOf(cache, lastRead') # {}
             /\ \A e \in EntriesOf(cache, lastRead') : e.value = lastRead'.value
             /\ cache' = cache]_vars
  /\ [][\A r \in ReadSlots :
          (readCount' = readCount + 1 /\ reads'[r] # reads[r])
            => /\ EntriesOf(cache, reads'[r]) = {}
               /\ reads'[r].pc \in {"queryOverview", "queryPages"}
               /\ cache' = cache /\ lastRead' = lastRead]_vars
  /\ [][\A r \in ReadSlots :
          (reads[r].pc # "idle" /\ reads'[r].pc = "idle")
            => /\ ~lastRead'.hit /\ lastRead'.seq = reads[r].seq
               /\ lastRead'.value \in FreshResults(rollups, reads[r])
               /\ EntriesOf(cache', reads[r])
                    = {[key |-> serializeKey(reads[r].namespace, reads[r].projectId,
                                             ReadKey(reads[r])),
                        value |-> lastRead'.value]}]_vars
  /\ [][ReadStep => \A e \in cache : \E kept \in cache' : kept.key = e.key]_vars

\* getPageStats found no page for its parameters, stored the empty result and
\* returned it; the same call made again was answered from the cache
C32_Witness ==
  /\ lastRead.seq = 2 /\ lastRead.hit
  /\ lastRead.namespace = "pages"
  /\ lastRead.value = <<>>
  /\ EntriesOf(cache, lastRead) = {[key |-> serializeKey("pages", lastRead.projectId,
                                                          PageKeyOf(lastRead.params)),
                                     value |-> <<>>]}
  /\ rollups # EmptyRollups

====
